---------------------------- MODULE Spec2Model ----------------------------
(***************************************************************************)
(* Hybrid search over Aurora PostgreSQL: score fusion and reranking.       *)
(*                                                                         *)
(* The module models the fusion functions of the workshop applications     *)
(*   - hybrid_search  (lab2-mcp-agent/streamlit_app.py): semantic+keyword  *)
(*   - rrf_search     (lab2-mcp-agent/streamlit_app.py): reciprocal ranks  *)
(*   - hybrid_search  (code/streamlit_app.py): semantic+trigram+fulltext   *)
(* and the rerank adapters rerank_results of lab2-mcp-agent, the thread    *)
(* pool of run_search_async, and the dict objects the lab2 functions are   *)
(* given and create.                                                       *)
(*                                                                         *)
(* Python floats are modelled as exact rationals <<n, d>> in lowest terms  *)
(* with d > 0, so equality of two scores is equality of the two tuples.    *)
(* A Python dict is modelled as the sequence of its (key, value) entries   *)
(* in insertion order, which is the order dict.items() iterates in.        *)
(***************************************************************************)
EXTENDS Integers, Sequences, FiniteSets, TLC

VARIABLES
    fn,        \* the fusion function called last ("idle" before any call)
    args,      \* its arguments
    fetched,   \* the result lists they returned, fetched[i] from invoked[i]
    invoked,   \* the retrieval providers it invoked, in order
    ret,       \* the list it returned (<<>> when it raised)
    err,       \* "none", or the name of the exception it raised
    rr,        \* the last rerank_results call: arguments, response, outcome
    methods,   \* run_search_async: the number of search methods submitted
    pc,        \* run_search_async: where the calling thread is
    future,    \* run_search_async: the state of each method's future
    results_data,   \* run_search_async: the 'results' dict
    timings_data,   \* run_search_async: the 'timings' dict
    heap,      \* the dict objects of a call, heap[a] the one at address a
    refs,      \* that call: its function, the objects given, the list returned
    session_state,  \* st.session_state of the Streamlit session
    now,       \* the wall clock, counted in completed comparison searches
    db,        \* the last call of a retrieval provider: where it is, what it holds
    connections, \* the database connections opened so far, each "open" or "closed"
    strands,   \* the last strands_agent_search call: its inputs and its outcome
    emb,       \* the loader's last generate_embedding_cohere call: inputs and outcome
    loader,    \* store_products of the loader: where its loop is, what it sent
    gen        \* FixedIncidentGenerator.generate_dataset: its loop, its logs

fusionVars == <<fn, args, fetched, invoked, ret, err>>
asyncVars == <<methods, pc, future, results_data, timings_data>>
heapVars == <<heap, refs>>
sessionVars == <<session_state, now>>
dbVars == <<db, connections>>
loaderVars == <<emb, loader>>
vars == <<fn, args, fetched, invoked, ret, err, rr, methods, pc, future,
          results_data, timings_data, heap, refs, session_state,
          now, db, connections, strands, emb, loader, gen>>

---------------------------------------------------------------------------
(* Bounds of the model.                                                    *)

\* longest result list a retrieval provider returns
MaxLen == 2
\* largest result limit a caller passes
MaxLimit == 2

\* document / product identifiers
Ids == {"x", "y", "z"}
\* raw scores of the full-text providers (0.0, 1.0, 2.0): ts_rank_cd is
\* not bounded by 1.0
RawScores == 0..2
\* raw scores of the similarity providers (cosine, trigram): 0.0 or 1.0
UnitScores == 0..1
\* indices and relevance scores a rerank response item can carry, and the
\* lengths of the response's 'results' list
RelevanceScores == {1, 2}
ResponseLens == 0..2
\* slider weights of the two-method hybrid_search, in tenths of 1.0
Weights == {0, 3, 7}
\* values of rrf_search's k
KValues == {-1, 0, 1, 60}
\* rrf_search never reads result['score']: its lists carry one raw score
RankOnlyScores == {1}
\* doc_ids of incident_logs in the three-method hybrid_search
DocIds == {"x", "y"}

---------------------------------------------------------------------------
(* Exact rational arithmetic standing for Python float arithmetic.         *)

Abs(n) == IF n < 0 THEN -n ELSE n

RECURSIVE GCD(_, _)
GCD(a, b) == IF b = 0 THEN a ELSE GCD(b, a % b)

\* the rational n/d (d # 0) in lowest terms with a positive denominator
Rat(n, d) ==
    LET g == GCD(Abs(n), Abs(d))
        s == IF d < 0 THEN -1 ELSE 1
    IN  <<(s * n) \div g, (s * d) \div g>>

RZero == <<0, 1>>
ROne == <<1, 1>>
\* sums and comparisons go through the least common denominator, which
\* keeps the intermediate products small
RAdd(p, q) ==
    LET g == GCD(p[2], q[2])
    IN  Rat(p[1] * (q[2] \div g) + q[1] * (p[2] \div g), (p[2] \div g) * q[2])
RMul(p, q) == Rat(p[1] * q[1], p[2] * q[2])
RLt(p, q) ==
    LET g == GCD(p[2], q[2])
    IN  p[1] * (q[2] \div g) < q[1] * (p[2] \div g)
RLe(p, q) ==
    LET g == GCD(p[2], q[2])
    IN  p[1] * (q[2] \div g) <= q[1] * (p[2] \div g)
RMin(p, q) == IF RLt(q, p) THEN q ELSE p

---------------------------------------------------------------------------
(* Python dict, as the sequence of its entries in insertion order.         *)

DictHas(d, key) == \E i \in 1..Len(d) : d[i].key = key

DictGet(d, key, default) ==
    IF DictHas(d, key)
    THEN d[CHOOSE i \in 1..Len(d) : d[i].key = key].val
    ELSE default

\* d[key] = val: an existing key keeps its position, a new key goes last
DictSet(d, key, val) ==
    IF DictHas(d, key)
    THEN [i \in 1..Len(d) |-> IF d[i].key = key
                              THEN [key |-> key, val |-> val] ELSE d[i]]
    ELSE Append(d, [key |-> key, val |-> val])

\* s[:n] for n >= 0
Take(s, n) == SubSeq(s, 1, IF n < Len(s) THEN n ELSE Len(s))

\* mutant: sorted(...)[::-1] on an ascending sort, which reverses ties
RECURSIVE InsertDescTiesReversed(_, _, _)
InsertDescTiesReversed(perm, i, keys) ==
    IF perm = <<>> THEN <<i>>
    ELSE IF RLe(keys[Head(perm)], keys[i]) THEN <<i>> \o perm
    ELSE <<Head(perm)>> \o InsertDescTiesReversed(Tail(perm), i, keys)

\* sorted(..., key=..., reverse=True), as the order in which it takes the
\* positions of its input, given the sort key of each position.  Python's
\* sort is stable and reverse=True keeps the original order of equal keys:
\* a position goes after every earlier position whose key is >= its own.
RECURSIVE InsertDesc(_, _, _)
InsertDesc(perm, i, keys) ==
    IF perm = <<>> THEN <<i>>
    ELSE IF RLt(keys[Head(perm)], keys[i]) THEN <<i>> \o perm
    ELSE <<Head(perm)>> \o InsertDesc(Tail(perm), i, keys)

RECURSIVE SortOrderDesc(_, _)
SortOrderDesc(keys, n) ==
    IF n = 0 THEN <<>>
    ELSE InsertDesc(SortOrderDesc(keys, n - 1), n, keys)

SortedDesc(d, keys) ==
    LET perm == SortOrderDesc(keys, Len(d))
    IN  [i \in 1..Len(d) |-> d[perm[i]]]

---------------------------------------------------------------------------
(* Retrieval providers: keyword_search, fuzzy_search, semantic_search.     *)

\* One result dict of a provider.  description stands for the payload
\* fields (description, category, price, ...) and records which provider's
\* query read the row.
ResultItem(m, id, raw) ==
    [productId |-> id, score |-> <<raw, 1>>, method |-> m, description |-> m]

\* The lists provider m can return for LIMIT n: at most n rows, one per
\* productId (the primary key), in non-increasing order of score.
ProviderLists(m, n, raws) ==
    LET top == IF n < MaxLen THEN n ELSE MaxLen
        Rows(len) ==
            {s \in [1..len -> Ids \X raws] :
                /\ \A i, j \in 1..len : i < j =>
                      /\ s[i][1] # s[j][1]
                      /\ s[i][2] >= s[j][2]}
    IN  UNION {{[i \in 1..len |-> ResultItem(m, s[i][1], s[i][2])] :
                  s \in Rows(len)} : len \in 0..top}

---------------------------------------------------------------------------
(* hybrid_search of lab2-mcp-agent/streamlit_app.py.                       *)

\* for result in semantic_results: product_scores[pid] = score * weight
RECURSIVE SemanticLoop(_, _, _, _)
SemanticLoop(results, weight, i, acc) ==
    IF i > Len(results) THEN acc
    ELSE LET result == results[i]
             pid == result.productId
         IN  SemanticLoop(results, weight, i + 1,
                 [scores |-> DictSet(acc.scores, pid, RMul(result.score, weight)),
                  data |-> DictSet(acc.data, pid, result)])

\* mutant: the keyword score replaces the semantic one instead of adding
RECURSIVE KeywordLoopAssign(_, _, _, _)
KeywordLoopAssign(results, weight, i, acc) ==
    IF i > Len(results) THEN acc
    ELSE LET result == results[i]
             pid == result.productId
             add == RMul(result.score, weight)
         IN  KeywordLoopAssign(results, weight, i + 1,
                 IF DictHas(acc.scores, pid)
                 THEN [scores |-> DictSet(acc.scores, pid, add),
                       data |-> acc.data]
                 ELSE [scores |-> DictSet(acc.scores, pid, add),
                       data |-> DictSet(acc.data, pid, result)])

\* for result in keyword_results: add to a known pid, else insert
RECURSIVE KeywordLoop(_, _, _, _)
KeywordLoop(results, weight, i, acc) ==
    IF i > Len(results) THEN acc
    ELSE LET result == results[i]
             pid == result.productId
             add == RMul(result.score, weight)
         IN  KeywordLoop(results, weight, i + 1,
                 IF DictHas(acc.scores, pid)
                 THEN [scores |-> DictSet(acc.scores, pid,
                                     RAdd(DictGet(acc.scores, pid, RZero), add)),
                       data |-> acc.data]
                 ELSE [scores |-> DictSet(acc.scores, pid, add),
                       data |-> DictSet(acc.data, pid, result)])

\* mutant: the limit is applied before the sort
SortedProductsCutFirst(product_scores, limit) ==
    LET cut == Take(product_scores, limit)
    IN  SortedDesc(cut, [i \in 1..Len(cut) |-> cut[i].val])

\* sorted(product_scores.items(), ...)[:limit]
SortedProducts(product_scores, limit) ==
    Take(SortedDesc(product_scores,
                    [i \in 1..Len(product_scores) |-> product_scores[i].val]),
         limit)

\* product = product_data[pid].copy(); product['score'] = score; ...
BuildResults(sorted_products, product_data, label) ==
    [i \in 1..Len(sorted_products) |->
        [DictGet(product_data, sorted_products[i].key, <<>>)
            EXCEPT !.score = sorted_products[i].val, !.method = label]]

EmptyAcc == [scores |-> <<>>, data |-> <<>>]

\* mutant: the two lists are concatenated and sorted, never merged by id
FuseWeightedConcat(semantic_results, keyword_results, semantic_weight, keyword_weight, limit) ==
    LET all == [i \in 1..Len(semantic_results) |->
                   [semantic_results[i] EXCEPT
                       !.score = RMul(@, semantic_weight),
                       !.method = "Hybrid (Weighted)"]]
               \o [i \in 1..Len(keyword_results) |->
                   [keyword_results[i] EXCEPT
                       !.score = RMul(@, keyword_weight),
                       !.method = "Hybrid (Weighted)"]]
    IN  Take(SortedDesc(all, [i \in 1..Len(all) |-> all[i].score]), limit)

\* mutant: an empty semantic list ends the search with no result
FuseWeightedNeedsSemantic(semantic_results, keyword_results, semantic_weight, keyword_weight, limit) ==
    IF semantic_results = <<>> THEN <<>>
    ELSE LET a1 == SemanticLoop(semantic_results, semantic_weight, 1, EmptyAcc)
             a2 == KeywordLoop(keyword_results, keyword_weight, 1, a1)
         IN  BuildResults(SortedProducts(a2.scores, limit), a2.data, "Hybrid (Weighted)")

\* the fusion part of hybrid_search, lines 1075-1095
FuseWeighted(semantic_results, keyword_results, semantic_weight, keyword_weight, limit) ==
    LET a1 == SemanticLoop(semantic_results, semantic_weight, 1, EmptyAcc)
        a2 == KeywordLoop(keyword_results, keyword_weight, 1, a1)
    IN  BuildResults(SortedProducts(a2.scores, limit), a2.data, "Hybrid (Weighted)")

\* mutant: the providers are queried before the weights are normalised
HybridSearchFetchFirst ==
    /\ fn = "idle"
    /\ \E sw \in Weights, kw \in Weights, limit \in 0..MaxLimit :
       \E sem \in ProviderLists("Semantic", limit * 2, UnitScores),
          kwl \in ProviderLists("Keyword", limit * 2, RawScores) :
          LET total == sw + kw IN
          /\ fn' = "hybrid_search"
          /\ args' = [semantic_weight |-> sw, keyword_weight |-> kw,
                      limit |-> limit]
          /\ invoked' = <<"Semantic", "Keyword">>
          /\ fetched' = <<sem, kwl>>
          /\ IF total = 0
             THEN err' = "ZeroDivisionError" /\ ret' = <<>>
             ELSE /\ err' = "none"
                  /\ ret' = FuseWeighted(sem, kwl, Rat(sw, total), Rat(kw, total), limit)
    /\ UNCHANGED <<rr, asyncVars, heapVars, sessionVars, dbVars, strands,
                   loaderVars, gen>>

HybridSearch ==
    /\ fn = "idle"
    /\ \E sw \in Weights, kw \in Weights, limit \in 0..MaxLimit :
          LET total == sw + kw IN
          /\ fn' = "hybrid_search"
          /\ args' = [semantic_weight |-> sw, keyword_weight |-> kw,
                      limit |-> limit]
          /\ IF total = 0
             THEN \* semantic_weight / total raises before any retrieval
                  /\ err' = "ZeroDivisionError"
                  /\ invoked' = <<>>
                  /\ fetched' = <<>>
                  /\ ret' = <<>>
             ELSE \E sem \in ProviderLists("Semantic", limit * 2, UnitScores),
                     kwl \in ProviderLists("Keyword", limit * 2, RawScores) :
                  /\ err' = "none"
                  /\ invoked' = <<"Semantic", "Keyword">>
                  /\ fetched' = <<sem, kwl>>
                  /\ ret' = FuseWeighted(sem, kwl, Rat(sw, total), Rat(kw, total), limit)
    /\ UNCHANGED <<rr, asyncVars, heapVars, sessionVars, dbVars, strands,
                   loaderVars, gen>>

---------------------------------------------------------------------------
(* rrf_search of lab2-mcp-agent/streamlit_app.py.                          *)

\* mutant: product_scores[pid] = 1.0 / (k + rank), the earlier lists' share
\* of the score is lost
RECURSIVE RankLoopAssign(_, _, _, _, _)
RankLoopAssign(results, k, overwrite, rank, acc) ==
    IF rank > Len(results) THEN acc
    ELSE LET result == results[rank]
             pid == result.productId
         IN  RankLoopAssign(results, k, overwrite, rank + 1,
                 [scores |-> DictSet(acc.scores, pid, Rat(1, k + rank)),
                  data |-> IF overwrite \/ ~DictHas(acc.data, pid)
                           THEN DictSet(acc.data, pid, result)
                           ELSE acc.data])

\* mutant: every loop stores result, the last list's payload wins
RECURSIVE RankLoopLastWins(_, _, _, _, _)
RankLoopLastWins(results, k, overwrite, rank, acc) ==
    IF rank > Len(results) THEN acc
    ELSE LET result == results[rank]
             pid == result.productId
         IN  RankLoopLastWins(results, k, overwrite, rank + 1,
                 [scores |-> DictSet(acc.scores, pid,
                                RAdd(DictGet(acc.scores, pid, RZero), Rat(1, k + rank))),
                  data |-> DictSet(acc.data, pid, result)])

\* for rank, result in enumerate(results, 1):
\*     product_scores[pid] = product_scores.get(pid, 0) + 1.0 / (k + rank)
\* The semantic loop stores result unconditionally (overwrite), the keyword
\* and fuzzy loops only when pid is not yet in product_data.
RECURSIVE RankLoop(_, _, _, _, _)
RankLoop(results, k, overwrite, rank, acc) ==
    IF rank > Len(results) THEN acc
    ELSE LET result == results[rank]
             pid == result.productId
         IN  RankLoop(results, k, overwrite, rank + 1,
                 [scores |-> DictSet(acc.scores, pid,
                                RAdd(DictGet(acc.scores, pid, RZero), Rat(1, k + rank))),
                  data |-> IF overwrite \/ ~DictHas(acc.data, pid)
                           THEN DictSet(acc.data, pid, result)
                           ELSE acc.data])

\* mutant: 1.0 / (k + 1) is computed before the lists are looked at
RankDivisionByZeroBeforeLoop(lists, k) ==
    \/ k + 1 = 0
    \/ \E j \in 1..Len(lists) : \E rank \in 1..Len(lists[j]) : k + rank = 0

\* 1.0 / (k + rank) divides by zero at some rank of some list
RankDivisionByZero(lists, k) ==
    \E j \in 1..Len(lists) : \E rank \in 1..Len(lists[j]) : k + rank = 0

\* the fusion part of rrf_search, lines 1102-1125
FuseRRF(semantic_results, keyword_results, fuzzy_results, k, limit) ==
    LET a1 == RankLoop(semantic_results, k, TRUE, 1, EmptyAcc)
        a2 == RankLoop(keyword_results, k, FALSE, 1, a1)
        a3 == RankLoop(fuzzy_results, k, FALSE, 1, a2)
    IN  BuildResults(SortedProducts(a3.scores, limit), a3.data, "Hybrid (RRF)")

RrfSearch ==
    /\ fn = "idle"
    /\ \E k \in KValues, limit \in 0..MaxLimit :
       \E sem \in ProviderLists("Semantic", limit * 2, RankOnlyScores),
          kwl \in ProviderLists("Keyword", limit * 2, RankOnlyScores),
          fzl \in ProviderLists("Fuzzy", limit * 2, RankOnlyScores) :
          /\ fn' = "rrf_search"
          /\ args' = [k |-> k, limit |-> limit]
          /\ invoked' = <<"Semantic", "Keyword", "Fuzzy">>
          /\ fetched' = <<sem, kwl, fzl>>
          /\ IF RankDivisionByZero(<<sem, kwl, fzl>>, k)
             THEN /\ err' = "ZeroDivisionError"
                  /\ ret' = <<>>
             ELSE /\ err' = "none"
                  /\ ret' = FuseRRF(sem, kwl, fzl, k, limit)
    /\ UNCHANGED <<rr, asyncVars, heapVars, sessionVars, dbVars, strands,
                   loaderVars, gen>>

\* A retrieval provider raises: get_db_connection (psycopg.connect) or
\* cur.execute fails inside semantic_search, keyword_search or fuzzy_search.
\* The provider functions have try/finally and no except, and hybrid_search
\* calls them outside any try, so the exception leaves hybrid_search at the
\* call that failed: the providers after it are never invoked and no list
\* is returned.  invoked ends with the provider that raised, fetched holds
\* the lists of the providers that returned before it.
HybridSearchProviderFails ==
    /\ fn = "idle"
    /\ \E sw \in Weights, kw \in Weights, limit \in 0..MaxLimit :
          /\ sw + kw # 0
          /\ fn' = "hybrid_search"
          /\ args' = [semantic_weight |-> sw, keyword_weight |-> kw,
                      limit |-> limit]
          /\ \/ /\ invoked' = <<"Semantic">>
                /\ fetched' = <<>>
             \/ \E sem \in ProviderLists("Semantic", limit * 2, UnitScores) :
                /\ invoked' = <<"Semantic", "Keyword">>
                /\ fetched' = <<sem>>
          /\ err' = "OperationalError"
          /\ ret' = <<>>
    /\ UNCHANGED <<rr, asyncVars, heapVars, sessionVars, dbVars, strands,
                   loaderVars, gen>>

\* the same in rrf_search, whose three provider calls (lines 1099-1101)
\* are outside any try as well
RrfSearchProviderFails ==
    /\ fn = "idle"
    /\ \E k \in KValues, limit \in 0..MaxLimit :
          /\ fn' = "rrf_search"
          /\ args' = [k |-> k, limit |-> limit]
          /\ \/ /\ invoked' = <<"Semantic">>
                /\ fetched' = <<>>
             \/ \E sem \in ProviderLists("Semantic", limit * 2, RankOnlyScores) :
                /\ invoked' = <<"Semantic", "Keyword">>
                /\ fetched' = <<sem>>
             \/ \E sem \in ProviderLists("Semantic", limit * 2, RankOnlyScores),
                   kwl \in ProviderLists("Keyword", limit * 2, RankOnlyScores) :
                /\ invoked' = <<"Semantic", "Keyword", "Fuzzy">>
                /\ fetched' = <<sem, kwl>>
          /\ err' = "OperationalError"
          /\ ret' = <<>>
    /\ UNCHANGED <<rr, asyncVars, heapVars, sessionVars, dbVars, strands,
                   loaderVars, gen>>

---------------------------------------------------------------------------
(* hybrid_search of code/streamlit_app.py: semantic, trigram, fulltext.    *)

\* One row (doc_id, content, persona, timestamp, severity, score) of
\* semantic_search, trigram_search or fulltext_search.  content stands for
\* the payload columns and records which query read the row.
ResultRow(m, id, raw) == [doc_id |-> id, content |-> m, score |-> <<raw, 1>>]

RowLists(m, raws) ==
    LET Rows(len) ==
            {s \in [1..len -> DocIds \X raws] :
                /\ \A i, j \in 1..len : i < j =>
                      /\ s[i][1] # s[j][1]
                      /\ s[i][2] >= s[j][2]}
    IN  UNION {{[i \in 1..len |-> ResultRow(m, s[i][1], s[i][2])] :
                  s \in Rows(len)} : len \in 0..(IF MaxLen < 20 THEN MaxLen ELSE 20)}

\* mutant: the fulltext score is used as returned, like the other two
NormalizeScoreUncapped(weight_key, score) == score

\* score = min(score, 1.0) if score else 0      (fulltext only)
NormalizeScore(weight_key, score) ==
    IF weight_key = "fulltext"
    THEN (IF score # RZero THEN RMin(score, ROne) ELSE RZero)
    ELSE score

NewEntry(row) ==
    [content |-> row.content,
     scores |-> [semantic |-> RZero, trigram |-> RZero, fulltext |-> RZero],
     combined_score |-> RZero]

\* for doc_id, content, persona, timestamp, severity, score in results: ...
RECURSIVE CombineLoop(_, _, _, _, _)
CombineLoop(results, weight_key, weights, i, combined_scores) ==
    IF i > Len(results) THEN combined_scores
    ELSE LET row == results[i]
             c1 == IF DictHas(combined_scores, row.doc_id)
                   THEN combined_scores
                   ELSE DictSet(combined_scores, row.doc_id, NewEntry(row))
             score == NormalizeScore(weight_key, row.score)
             e == DictGet(c1, row.doc_id, <<>>)
             e2 == [e EXCEPT !.scores[weight_key] = score,
                             !.combined_score =
                                 RAdd(@, RMul(score, weights[weight_key]))]
         IN  CombineLoop(results, weight_key, weights, i + 1,
                         DictSet(c1, row.doc_id, e2))

\* mutant: weights = {k: 1 - v/total ...}, a larger weight counts for less
NormalizeWeightsInverted(weights) ==
    LET total == weights.semantic + weights.trigram + weights.fulltext
    IN  [key \in DOMAIN weights |-> Rat(total - weights[key], total)]

\* mutant: the weights are used as given, in tenths, without dividing by
\* their sum
NormalizeWeightsAsGiven(weights) ==
    [key \in DOMAIN weights |-> Rat(weights[key], 10)]

\* weights = {k: v/total for k, v in weights.items()}
NormalizeWeights(weights) ==
    LET total == weights.semantic + weights.trigram + weights.fulltext
    IN  [key \in DOMAIN weights |-> Rat(weights[key], total)]

\* the fusion part of the three-method hybrid_search, lines 190-224
FuseWeighted3(semantic_results, trigram_results, fulltext_results, weights, limit) ==
    LET c1 == CombineLoop(semantic_results, "semantic", weights, 1, <<>>)
        c2 == CombineLoop(trigram_results, "trigram", weights, 1, c1)
        c3 == CombineLoop(fulltext_results, "fulltext", weights, 1, c2)
    IN  Take(SortedDesc(c3, [i \in 1..Len(c3) |-> c3[i].val.combined_score]),
             limit)

Weights3(s, t, f) == [semantic |-> s, trigram |-> t, fulltext |-> f]

\* the presets of the sidebar, in tenths
PresetWeights ==
    {Weights3(4, 3, 3), Weights3(7, 2, 1), Weights3(2, 1, 7), Weights3(2, 7, 1)}

\* some settings of the three "Custom" sliders, in tenths
CustomWeights == {Weights3(s, t, f) : s \in {0, 5}, t \in {0, 5}, f \in {0, 5}}

HybridSearch3 ==
    /\ fn = "idle"
    /\ \E weights \in PresetWeights \cup CustomWeights, limit \in 0..MaxLimit :
          /\ fn' = "hybrid_search3"
          /\ args' = [weights |-> weights, limit |-> limit]
          /\ IF weights.semantic + weights.trigram + weights.fulltext = 0
             THEN \* v/total raises before any retrieval
                  /\ err' = "ZeroDivisionError"
                  /\ invoked' = <<>>
                  /\ fetched' = <<>>
                  /\ ret' = <<>>
             ELSE \E sem \in RowLists("semantic", UnitScores),
                     tri \in RowLists("trigram", UnitScores),
                     ful \in RowLists("fulltext", RawScores) :
                  /\ err' = "none"
                  /\ invoked' = <<"semantic", "trigram", "fulltext">>
                  /\ fetched' = <<sem, tri, ful>>
                  /\ ret' = FuseWeighted3(sem, tri, ful, NormalizeWeights(weights), limit)
    /\ UNCHANGED <<rr, asyncVars, heapVars, sessionVars, dbVars, strands,
                   loaderVars, gen>>

---------------------------------------------------------------------------
(* The search is repeated with other weights: the sidebar sliders are      *)
(* moved and the page reruns the same query.  The providers return what    *)
(* they returned before (same query, same limit, data unchanged).          *)

\* the factors by which all sliders are moved together
ScaleFactors == {2, 3}

\* slider positions after one of the two sliders was raised
RaisedPairs(semantic_weight, keyword_weight) ==
    {<<w, keyword_weight>> : w \in {v \in Weights : v > semantic_weight}}
    \cup {<<semantic_weight, w>> : w \in {v \in Weights : v > keyword_weight}}

\* slider positions after both were multiplied by a common factor
ScaledPairs(semantic_weight, keyword_weight) ==
    {<<c * semantic_weight, c * keyword_weight>> : c \in ScaleFactors}

\* hybrid_search of lab2, called again after a first search that returned;
\* the sum of the new weights is positive because the old one was
HybridSearchAgain ==
    /\ fn = "hybrid_search" /\ err = "none"
    /\ args.semantic_weight \in Weights /\ args.keyword_weight \in Weights
    /\ \E p \in RaisedPairs(args.semantic_weight, args.keyword_weight)
                \cup ScaledPairs(args.semantic_weight, args.keyword_weight) :
          LET total == p[1] + p[2] IN
          /\ args' = [semantic_weight |-> p[1], keyword_weight |-> p[2],
                      limit |-> args.limit]
          /\ ret' = FuseWeighted(fetched[1], fetched[2],
                                 Rat(p[1], total), Rat(p[2], total), args.limit)
    /\ UNCHANGED <<fn, invoked, fetched, err, rr, asyncVars, heapVars,
                   sessionVars, dbVars, strands, loaderVars, gen>>

\* positions of the three "Custom" sliders, in tenths
SliderSteps == {0, 5, 10}

\* custom slider positions after one slider was raised
RaisedWeights3(weights) ==
    UNION {{[weights EXCEPT ![key] = v] : v \in {u \in SliderSteps : u > weights[key]}} :
              key \in DOMAIN weights}

\* slider positions multiplied by a common factor
ScaledWeights3(weights) ==
    {[key \in DOMAIN weights |-> c * weights[key]] : c \in ScaleFactors}

\* the three-method hybrid_search, called again after a first search that
\* returned: a custom setting with one slider raised, or a preset scaled
HybridSearch3Again ==
    /\ fn = "hybrid_search3" /\ err = "none"
    /\ \E weights \in (IF args.weights \in CustomWeights
                       THEN RaisedWeights3(args.weights)
                       ELSE IF args.weights \in PresetWeights
                       THEN ScaledWeights3(args.weights) ELSE {}) :
          /\ args' = [weights |-> weights, limit |-> args.limit]
          /\ ret' = FuseWeighted3(fetched[1], fetched[2], fetched[3],
                                  NormalizeWeights(weights), args.limit)
    /\ UNCHANGED <<fn, invoked, fetched, err, rr, asyncVars, heapVars,
                   sessionVars, dbVars, strands, loaderVars, gen>>

---------------------------------------------------------------------------
(* rerank_results of lab2-mcp-agent/streamlit_app.py and lab2_mcp_demo.py. *)

\* One item of the 'results' list of a rerank response; a key the item
\* lacks has its has_ flag FALSE.
ResponseItems(n) ==
    {[has_index |-> TRUE, index |-> i, has_score |-> TRUE, relevance_score |-> r] :
        i \in -1..n, r \in RelevanceScores}
    \cup {[has_index |-> FALSE, index |-> 0, has_score |-> TRUE, relevance_score |-> r] :
            r \in RelevanceScores}
    \cup {[has_index |-> TRUE, index |-> i, has_score |-> FALSE, relevance_score |-> 0] :
            i \in -1..n}

\* What bedrock_runtime.invoke_model and json.loads can give for n
\* documents: an exception, a body without 'results', or a body whose
\* 'results' is a list of items.
Responses(n) ==
    {[kind |-> "exception", has_results |-> FALSE, results |-> <<>>],
     [kind |-> "body", has_results |-> FALSE, results |-> <<>>]}
    \cup UNION {{[kind |-> "body", has_results |-> TRUE, results |-> items] :
                    items \in [1..len -> ResponseItems(n)]} : len \in ResponseLens}

\* results[idx] of a Python list: -len <= idx < len, else IndexError
PyIndexOk(s, idx) == -Len(s) <= idx /\ idx < Len(s)
PyIndex(s, idx) == IF idx >= 0 THEN s[idx + 1] ELSE s[Len(s) + idx + 1]

\* d[key] = val on a dict modelled as a record
WithField(d, key, val) ==
    [f \in DOMAIN d \cup {key} |-> IF f = key THEN val ELSE d[f]]

\* item['index'], results[idx] or item['relevance_score'] raises
ItemRaises(results, item) ==
    \/ ~item.has_index
    \/ ~PyIndexOk(results, item.index)
    \/ ~item.has_score

\* mutant: results.index(x), the 0-based position
ZeroBasedIndexOf(s, x) == CHOOSE i \in 0..(Len(s) - 1) :
                              s[i + 1] = x /\ \A j \in 1..i : s[j] # x

\* results.index(x) + 1: the 1-based position of the first element equal to x
FirstIndexOf(s, x) == CHOOSE i \in 1..Len(s) :
                          s[i] = x /\ \A j \in 1..(i - 1) : s[j] # x

\* mutant: the relevance score replaces the fused score
RerankedItemReplacesScore(results, item, demo) ==
    WithField([PyIndex(results, item.index) EXCEPT
                  !.score = <<item.relevance_score, 1>>],
              "rerank_score", item.relevance_score)

\* one turn of the loop body, lines 1148-1151 (demo 216-220)
RerankedItem(results, item, demo) ==
    LET result == WithField(PyIndex(results, item.index),
                            "rerank_score", item.relevance_score)
    IN  IF demo
        THEN WithField(result, "original_rank",
                       FirstIndexOf(results, PyIndex(results, item.index)))
        ELSE result

\* the value rerank_results returns, given what the provider call gave
RerankResults(results, top_k, response, demo) ==
    IF results = <<>> THEN <<>>
    ELSE IF response.kind = "exception" THEN Take(results, top_k)
    ELSE LET items == IF response.has_results THEN response.results ELSE <<>>
         IN  IF \E i \in 1..Len(items) : ItemRaises(results, items[i])
             THEN Take(results, top_k)
             ELSE [i \in 1..Len(items) |-> RerankedItem(results, items[i], demo)]

\* the candidates passed in: the result list of one of the search methods
Candidates == ProviderLists("Hybrid (RRF)", MaxLen, UnitScores)

Rerank ==
    /\ rr = <<>>
    /\ \E results \in Candidates, top_k \in 0..MaxLimit, demo \in BOOLEAN :
          IF results = <<>>
          THEN rr' = [fn |-> IF demo THEN "rerank_results_demo" ELSE "rerank_results",
                      results |-> results, top_k |-> top_k, called |-> FALSE,
                      response |-> <<>>, ret |-> <<>>, err |-> "none"]
          ELSE \E response \in Responses(Len(results)) :
               rr' = [fn |-> IF demo THEN "rerank_results_demo" ELSE "rerank_results",
                      results |-> results, top_k |-> top_k, called |-> TRUE,
                      response |-> response,
                      ret |-> RerankResults(results, top_k, response, demo),
                      err |-> "none"]
    /\ UNCHANGED <<fusionVars, asyncVars, heapVars, sessionVars, dbVars,
                   strands, loaderVars, gen>>

RerankReturn ==
    /\ rr # <<>>
    /\ rr' = <<>>
    /\ UNCHANGED <<fusionVars, asyncVars, heapVars, sessionVars, dbVars,
                   strands, loaderVars, gen>>

---------------------------------------------------------------------------
(* run_search_async of lab2-mcp-agent/streamlit_app.py: the search methods *)
(* of the comparison page run on a thread pool.  Methods are numbered in   *)
(* the order of the search_methods list; their names are distinct.         *)

\* ThreadPoolExecutor(max_workers=5)
MaxWorkers == 5
\* most search methods a caller submits
MaxMethods == 6

\* retrieval provider calls made by Keyword, Fuzzy, Semantic,
\* Hybrid (Weighted) and Hybrid (RRF), the methods the page submits in
\* this order; a further method makes one call
ProviderCalls == <<1, 1, 1, 2, 3>>
Calls(m) == IF m <= Len(ProviderCalls) THEN ProviderCalls[m] ELSE 1

\* the list the m-th method's function returns
ReturnValue(m) == <<m>>

\* futures whose function is executing on a worker thread, and those
\* inside a retrieval provider call
Running == {m \in DOMAIN future : future[m].state = "running"}
InFlight == {m \in DOMAIN future : future[m].state = "running" /\ future[m].call > 0}
Finished == {m \in DOMAIN future : future[m].state \in {"returned", "raised"}}

\* the caller enters run_search_async: empty dicts, the pool is created
RunSearchAsync ==
    /\ pc = "idle"
    /\ \E n \in 0..MaxMethods :
          /\ methods' = n
          /\ future' = [m \in 1..n |-> [state |-> "unsubmitted", call |-> 0]]
          /\ pc' = IF n = 0 THEN "collect" ELSE "submit"
    /\ results_data' = <<>>
    /\ timings_data' = <<>>
    /\ UNCHANGED <<fusionVars, rr, heapVars, sessionVars, dbVars, strands,
                   loaderVars, gen>>

\* future = executor.submit(method_func, ...): the next method of the list
\* is queued; after the last one the caller turns to as_completed
Submit(m) ==
    /\ pc = "submit"
    /\ future[m].state = "unsubmitted"
    /\ \A h \in 1..(m - 1) : future[h].state # "unsubmitted"
    /\ future' = [future EXCEPT ![m].state = "queued"]
    /\ pc' = IF m = methods THEN "collect" ELSE "submit"
    /\ UNCHANGED <<fusionVars, rr, heapVars, methods, results_data, timings_data,
                   sessionVars, dbVars, strands, loaderVars, gen>>

\* mutant: a thread per submitted method, no limit on the workers
StartMethodUnbounded(m) ==
    /\ future[m].state = "queued"
    /\ \A h \in 1..(m - 1) : future[h].state # "queued"
    /\ future' = [future EXCEPT ![m] = [state |-> "running", call |-> 1]]
    /\ UNCHANGED <<fusionVars, rr, heapVars, methods, pc, results_data,
                   timings_data, sessionVars, dbVars, strands, loaderVars,
                   gen>>

\* a worker thread takes the oldest queued work item; the pool has at most
\* max_workers threads, each running one item at a time.  The method
\* function starts with its first provider call.
StartMethod(m) ==
    /\ future[m].state = "queued"
    /\ \A h \in 1..(m - 1) : future[h].state # "queued"
    /\ Cardinality(Running) < MaxWorkers
    /\ future' = [future EXCEPT ![m] = [state |-> "running", call |-> 1]]
    /\ UNCHANGED <<fusionVars, rr, heapVars, methods, pc, results_data,
                   timings_data, sessionVars, dbVars, strands, loaderVars,
                   gen>>

\* a provider call returns; the method makes its next call, or goes on to
\* compute its result when that was the last one
ProviderReturns(m) ==
    /\ future[m].state = "running"
    /\ future[m].call > 0
    /\ future' = [future EXCEPT ![m].call =
                     IF future[m].call < Calls(m) THEN future[m].call + 1 ELSE 0]
    /\ UNCHANGED <<fusionVars, rr, heapVars, methods, pc, results_data,
                   timings_data, sessionVars, dbVars, strands, loaderVars,
                   gen>>

\* the method function raises, in a provider call or in its own code; the
\* worker stores the exception in the future
MethodRaises(m) ==
    /\ future[m].state = "running"
    /\ future' = [future EXCEPT ![m] = [state |-> "raised", call |-> 0]]
    /\ UNCHANGED <<fusionVars, rr, heapVars, methods, pc, results_data,
                   timings_data, sessionVars, dbVars, strands, loaderVars,
                   gen>>

\* the method function returns; the worker stores the value in the future
MethodReturns(m) ==
    /\ future[m].state = "running"
    /\ future[m].call = 0
    /\ future' = [future EXCEPT ![m].state = "returned"]
    /\ UNCHANGED <<fusionVars, rr, heapVars, methods, pc, results_data,
                   timings_data, sessionVars, dbVars, strands, loaderVars,
                   gen>>

\* one iteration of  for future in as_completed(future_to_method):  a
\* finished future not yet handed out; future.result() returns the value
\* or re-raises, and the except branch stores [] and 0
Collect(m) ==
    /\ pc = "collect"
    /\ m \in Finished
    /\ m \notin DOMAIN results_data
    /\ IF future[m].state = "returned"
       THEN /\ results_data' = (m :> ReturnValue(m)) @@ results_data
            /\ timings_data' = (m :> "elapsed") @@ timings_data
       ELSE /\ results_data' = (m :> <<>>) @@ results_data
            /\ timings_data' = (m :> "0") @@ timings_data
    /\ UNCHANGED <<fusionVars, rr, heapVars, methods, pc, future, sessionVars,
                   dbVars, strands, loaderVars, gen>>

\* mutant: the caller returns once some future has been handled
AsyncReturnFirstCompleted ==
    /\ pc = "collect"
    /\ DOMAIN results_data # {}
    /\ pc' = "returned"
    /\ UNCHANGED <<fusionVars, rr, heapVars, methods, future, results_data,
                   timings_data, sessionVars, dbVars, strands, loaderVars,
                   gen>>

\* as_completed is exhausted when every future was handed out; the with
\* block then shuts the pool down and the dicts are returned
AsyncReturn ==
    /\ pc = "collect"
    /\ DOMAIN results_data = 1..methods
    /\ pc' = "returned"
    /\ UNCHANGED <<fusionVars, rr, heapVars, methods, future, results_data,
                   timings_data, sessionVars, dbVars, strands, loaderVars,
                   gen>>

\* the page takes the dicts
AsyncDone ==
    /\ pc = "returned"
    /\ pc' = "idle"
    /\ methods' = 0
    /\ future' = <<>>
    /\ results_data' = <<>>
    /\ timings_data' = <<>>
    /\ UNCHANGED <<fusionVars, rr, heapVars, sessionVars, dbVars, strands,
                   loaderVars, gen>>

InitAsync ==
    /\ methods = 0
    /\ pc = "idle"
    /\ future = <<>>
    /\ results_data = <<>>
    /\ timings_data = <<>>

---------------------------------------------------------------------------
(* The dict objects that hybrid_search, rrf_search and rerank_results of   *)
(* lab2-mcp-agent/streamlit_app.py are given, read and create.  A Python   *)
(* dict is an object with an identity: heap[a] is the content of the dict  *)
(* at address a, a list of dicts is a list of addresses.  The dicts given  *)
(* to a call (the items of the provider lists, the candidates) are at the  *)
(* addresses 1..n.  The loops that fill product_scores and product_data    *)
(* only read the dicts and store references to them.                       *)

\* mutant: product = product_data[pid], a second name for the same dict
DictAlias(h, a) == [heap |-> h, addr |-> a]

\* d.copy(): a new dict with the same items
DictCopy(h, a) == [heap |-> Append(h, h[a]), addr |-> Len(h) + 1]

\* d[key] = val on the dict at address a
SetItem(h, a, key, val) == [h EXCEPT ![a] = WithField(@, key, val)]

\* the address of the given dict that product_data holds for an id
AddrOf(given, item) == CHOOSE a \in 1..Len(given) : given[a] = item

\* for pid, score in sorted_products:
\*     product = product_data[pid].copy()
\*     product['score'] = score; product['method'] = label
\*     results.append(product)
RECURSIVE CopyLoop(_, _, _, _, _, _)
CopyLoop(sorted_products, product_data, label, given, i, hp) ==
    IF i > Len(sorted_products) THEN hp
    ELSE LET pid == sorted_products[i].key
             product == DictCopy(hp.heap, AddrOf(given, DictGet(product_data, pid, <<>>)))
             h1 == SetItem(product.heap, product.addr, "score", sorted_products[i].val)
             h2 == SetItem(h1, product.addr, "method", label)
         IN  CopyLoop(sorted_products, product_data, label, given, i + 1,
                      [heap |-> h2, results |-> Append(hp.results, product.addr)])

\* hybrid_search with the dicts the two providers returned at the
\* addresses 1..n; zero-sum weights raise before any dict exists
HybridSearchOnHeap ==
    /\ refs = <<>>
    /\ \E sw \in Weights, kw \in Weights, limit \in 0..MaxLimit :
          /\ sw + kw # 0
          /\ \E sem \in ProviderLists("Semantic", limit * 2, UnitScores),
                kwl \in ProviderLists("Keyword", limit * 2, RawScores) :
                LET given == sem \o kwl
                    a1 == SemanticLoop(sem, Rat(sw, sw + kw), 1, EmptyAcc)
                    a2 == KeywordLoop(kwl, Rat(kw, sw + kw), 1, a1)
                    built == CopyLoop(SortedProducts(a2.scores, limit), a2.data,
                                      "Hybrid (Weighted)", given, 1,
                                      [heap |-> given, results |-> <<>>])
                IN  /\ heap' = built.heap
                    /\ refs' = [fn |-> "hybrid_search", given |-> given,
                                ret |-> built.results]
    /\ UNCHANGED <<fusionVars, rr, asyncVars, sessionVars, dbVars, strands,
                   loaderVars, gen>>

\* rrf_search with the dicts the three providers returned at the addresses
\* 1..n; a division by zero leaves the loops before any dict is copied
RrfSearchOnHeap ==
    /\ refs = <<>>
    /\ \E k \in KValues, limit \in 0..MaxLimit :
       \E sem \in ProviderLists("Semantic", limit * 2, RankOnlyScores),
          kwl \in ProviderLists("Keyword", limit * 2, RankOnlyScores),
          fzl \in ProviderLists("Fuzzy", limit * 2, RankOnlyScores) :
          LET given == sem \o kwl \o fzl IN
          IF RankDivisionByZero(<<sem, kwl, fzl>>, k)
          THEN /\ heap' = given
               /\ refs' = [fn |-> "rrf_search", given |-> given, ret |-> <<>>]
          ELSE LET a1 == RankLoop(sem, k, TRUE, 1, EmptyAcc)
                   a2 == RankLoop(kwl, k, FALSE, 1, a1)
                   a3 == RankLoop(fzl, k, FALSE, 1, a2)
                   built == CopyLoop(SortedProducts(a3.scores, limit), a3.data,
                                     "Hybrid (RRF)", given, 1,
                                     [heap |-> given, results |-> <<>>])
               IN  /\ heap' = built.heap
                   /\ refs' = [fn |-> "rrf_search", given |-> given,
                               ret |-> built.results]
    /\ UNCHANGED <<fusionVars, rr, asyncVars, sessionVars, dbVars, strands,
                   loaderVars, gen>>

\* for item in response_body.get('results', []):
\*     result = results[item['index']].copy()
\*     result['rerank_score'] = item['relevance_score']
\*     reranked.append(result)
\* results is the list of the candidates' addresses; an item that raises
\* ends the loop
RECURSIVE RerankLoop(_, _, _, _)
RerankLoop(results, items, i, hp) ==
    IF hp.raised \/ i > Len(items) THEN hp
    ELSE IF ItemRaises(results, items[i]) THEN [hp EXCEPT !.raised = TRUE]
    ELSE LET result == DictCopy(hp.heap, PyIndex(results, items[i].index))
             h1 == SetItem(result.heap, result.addr, "rerank_score",
                           items[i].relevance_score)
         IN  RerankLoop(results, items, i + 1,
                        [heap |-> h1, results |-> Append(hp.results, result.addr),
                         raised |-> FALSE])

\* rerank_results with the candidate dicts at the addresses 1..n; the
\* except branch returns results[:top_k], the first candidates themselves
RerankOnHeap ==
    /\ refs = <<>>
    /\ \E given \in Candidates \ {<<>>}, top_k \in 0..MaxLimit :
       \E response \in Responses(Len(given)) :
          LET results == [a \in 1..Len(given) |-> a]
              items == IF response.has_results THEN response.results ELSE <<>>
              looped == RerankLoop(results, items, 1,
                                   [heap |-> given, results |-> <<>>,
                                    raised |-> response.kind = "exception"])
          IN  /\ heap' = looped.heap
              /\ refs' = [fn |-> "rerank_results", given |-> given,
                          ret |-> IF looped.raised THEN Take(results, top_k)
                                  ELSE looped.results]
    /\ UNCHANGED <<fusionVars, rr, asyncVars, sessionVars, dbVars, strands,
                   loaderVars, gen>>

\* the caller takes the list; the next call starts from scratch
HeapReturn ==
    /\ refs # <<>>
    /\ heap' = <<>>
    /\ refs' = <<>>
    /\ UNCHANGED <<fusionVars, rr, asyncVars, sessionVars, dbVars, strands,
                   loaderVars, gen>>

InitHeap ==
    /\ heap = <<>>
    /\ refs = <<>>

---------------------------------------------------------------------------

\* The comparison tab of the Streamlit session: st.session_state across the
\* searches of one session.

HistoryLimit == 10
RecentShown == 5
MaxSearches == 11

Queries == {"headphones", "camera"}
Personas == {"customer", "support_agent"}
MethodNames ==
    <<"Keyword", "Fuzzy", "Semantic", "Hybrid (Weighted)", "Hybrid (RRF)">>

\* the 'results' dict of run_search_async: one entry per method, in order
ResultsData(list) ==
    [i \in 1..Len(MethodNames) |-> [key |-> MethodNames[i], val |-> list]]

\* the 'timings' dict of run_search_async
TimingsData ==
    [i \in 1..Len(MethodNames) |-> [key |-> MethodNames[i], val |-> "elapsed"]]

\* what a search can find: nothing, or one product
SearchOutcomes ==
    {ResultsData(l) : l \in {<<>>, <<ResultItem("search", "x", 1)>>}}

\* the rows export_results_to_csv writes: one per method and result, none
\* when no method found anything
RECURSIVE CsvRows(_, _, _)
CsvRows(results, query, i) ==
    IF i > Len(results) THEN <<>>
    ELSE [j \in 1..Len(results[i].val) |->
             [Query |-> query, Method |-> results[i].key,
              ProductId |-> results[i].val[j].productId,
              Description |-> results[i].val[j].description,
              Score |-> results[i].val[j].score]]
         \o CsvRows(results, query, i + 1)

export_results_to_csv(results, query) == CsvRows(results, query, 1)

export_results_to_json(results, query, timings, timestamp) ==
    [query |-> query, timestamp |-> timestamp, timings |-> timings,
     results |-> results]

\* mutant: s[:n]
FirstN(s, n) == SubSeq(s, 1, IF n < Len(s) THEN n ELSE Len(s))

\* s[-n:] for n > 0
LastN(s, n) == SubSeq(s, IF n < Len(s) THEN Len(s) - n + 1 ELSE 1, Len(s))

\* A key that is not in st.session_state holds <<>> here, and a key that is
\* holds <<value>>; .get() of a missing key is "None".
ComparisonSearch ==
    /\ now < MaxSearches
    /\ \E search_query \in Queries, found \in SearchOutcomes :
          LET timestamp == now + 1
              history ==
                  Append(session_state.search_history,
                         [query |-> search_query, timestamp |-> timestamp,
                          persona |-> session_state.persona])
              s1 == [session_state EXCEPT
                        !.last_results = found,
                        !.last_timings = TimingsData,
                        !.search_history = LastN(history, HistoryLimit)]
              s2 == IF s1.csv_data = <<>> \/ s1.last_export_query # search_query
                    THEN [s1 EXCEPT
                            !.csv_data =
                                <<export_results_to_csv(found, search_query)>>,
                            !.last_export_query = search_query]
                    ELSE s1
              s3 == IF s2.json_data = <<>> \/ s2.last_export_query # search_query
                    THEN [s2 EXCEPT
                            !.json_data =
                                <<export_results_to_json(found, search_query,
                                                         TimingsData, timestamp)>>]
                    ELSE s2
          IN  /\ session_state' = s3
              /\ now' = timestamp
    /\ UNCHANGED <<fusionVars, rr, asyncVars, heapVars, dbVars, strands, loaderVars,
                   gen>>

\* a button of 'Recent Searches': the five newest entries, newest first
HistoryClick ==
    /\ session_state.search_history # <<>>
    /\ \E i \in 1..RecentShown :
          LET recent == LastN(session_state.search_history, RecentShown)
          IN  /\ i <= Len(recent)
              /\ session_state' =
                    [session_state EXCEPT
                        !.quick_search = recent[Len(recent) + 1 - i].query]
    /\ UNCHANGED <<fusionVars, rr, asyncVars, heapVars, now, dbVars, strands,
                   loaderVars, gen>>

\* the 'Select Role' box of the sidebar; the model lets the role change only
\* before the first search of the session
SelectPersona ==
    /\ session_state.search_history = <<>>
    /\ \E persona \in Personas :
          /\ persona # session_state.persona
          /\ session_state' = [session_state EXCEPT !.persona = persona]
    /\ UNCHANGED <<fusionVars, rr, asyncVars, heapVars, now, dbVars, strands,
                   loaderVars, gen>>

\* the select box starts on the first persona
InitSession ==
    /\ now = 0
    /\ session_state =
          [search_history |-> <<>>, last_results |-> <<>>,
           last_timings |-> <<>>, csv_data |-> <<>>, json_data |-> <<>>,
           last_export_query |-> "None", quick_search |-> "None",
           persona |-> "customer"]

---------------------------------------------------------------------------

\* The retrieval providers and their database connections.  Every call to
\* the embedding service or to the database either succeeds or raises.

MaxConnections == 3

ProviderNames == {"keyword_search", "fuzzy_search", "semantic_search"}
PersonaArgs == {"None", "customer", "unknown"}
EmbeddingOutcomes == {"vector", "None", "[]"}

\* get_db_connection: the credentials of a known persona, else DB_CONFIG
ConfigUser(persona) ==
    IF persona # "None" /\ persona \in Personas
    THEN "persona user" ELSE "DB_CONFIG user"

Resting == db.pc \in {"idle", "returned", "raised"}

ProviderCall ==
    /\ Resting
    /\ Len(connections) < MaxConnections
    /\ \E f \in ProviderNames, persona \in PersonaArgs :
          db' = [fn |-> f, persona |-> persona, user |-> "none", conn |-> 0,
                 pc |-> IF f = "semantic_search" THEN "generate_embedding"
                        ELSE "connect",
                 embedding |-> "none", pending |-> "none", err |-> "none"]
    /\ UNCHANGED <<fusionVars, rr, asyncVars, heapVars, sessionVars,
                   connections, strands, loaderVars, gen>>

\* semantic_search: query_embedding = generate_embedding(...), which returns
\* None when the service fails; a falsy embedding returns [] at once
GenerateEmbedding ==
    /\ db.pc = "generate_embedding"
    /\ \E e \in EmbeddingOutcomes :
          db' = [db EXCEPT !.embedding = e,
                           !.pc = IF e = "vector" THEN "connect"
                                  ELSE "returned"]
    /\ UNCHANGED <<fusionVars, rr, asyncVars, heapVars, sessionVars,
                   connections, strands, loaderVars, gen>>

\* get_db_connection: psycopg.connect(**config, autocommit=True)
Connect ==
    /\ db.pc = "connect"
    /\ \/ /\ connections' = Append(connections, "open")
          /\ db' = [db EXCEPT !.user = ConfigUser(db.persona),
                              !.conn = Len(connections) + 1,
                              !.pc = "register_vector"]
       \/ /\ db' = [db EXCEPT !.user = ConfigUser(db.persona),
                              !.pc = "raised", !.err = "OperationalError"]
          /\ UNCHANGED connections
    /\ UNCHANGED <<fusionVars, rr, asyncVars, heapVars, sessionVars, strands,
                   loaderVars, gen>>

\* get_db_connection: register_vector(conn), then return conn; the caller
\* enters its try block.  register_vector raises when the database has no
\* vector type.
RegisterVector ==
    /\ db.pc = "register_vector"
    /\ \/ db' = [db EXCEPT !.pc = IF db.fn = "fuzzy_search"
                                  THEN "set_threshold" ELSE "execute"]
       \/ db' = [db EXCEPT !.pc = "raised", !.err = "ProgrammingError"]
    /\ UNCHANGED <<fusionVars, rr, asyncVars, heapVars, sessionVars,
                   connections, strands, loaderVars, gen>>

\* fuzzy_search: conn.execute("SET pg_trgm.similarity_threshold = 0.1;")
SetThreshold ==
    /\ db.pc = "set_threshold"
    /\ \/ db' = [db EXCEPT !.pc = "execute"]
       \/ db' = [db EXCEPT !.pc = "finally", !.pending = "raise",
                           !.err = "DatabaseError"]
    /\ UNCHANGED <<fusionVars, rr, asyncVars, heapVars, sessionVars,
                   connections, strands, loaderVars, gen>>

\* conn.execute(...).fetchall()
Execute ==
    /\ db.pc = "execute"
    /\ \/ db' = [db EXCEPT !.pc = "rows"]
       \/ db' = [db EXCEPT !.pc = "finally", !.pending = "raise",
                           !.err = "DatabaseError"]
    /\ UNCHANGED <<fusionVars, rr, asyncVars, heapVars, sessionVars,
                   connections, strands, loaderVars, gen>>

\* return [{...} for r in results]: len(r[1]) raises on a NULL description
BuildRows ==
    /\ db.pc = "rows"
    /\ \/ db' = [db EXCEPT !.pc = "finally", !.pending = "return"]
       \/ db' = [db EXCEPT !.pc = "finally", !.pending = "raise",
                           !.err = "TypeError"]
    /\ UNCHANGED <<fusionVars, rr, asyncVars, heapVars, sessionVars,
                   connections, strands, loaderVars, gen>>

\* finally: conn.close(), then the pending return or raise
Close ==
    /\ db.pc = "finally"
    /\ connections' = [connections EXCEPT ![db.conn] = "closed"]
    /\ db' = [db EXCEPT !.pc = IF db.pending = "return" THEN "returned"
                               ELSE "raised"]
    /\ UNCHANGED <<fusionVars, rr, asyncVars, heapVars, sessionVars, strands,
                   loaderVars, gen>>

InitDb ==
    /\ db = [fn |-> "none", persona |-> "None", user |-> "none", conn |-> 0,
             pc |-> "idle", embedding |-> "none", pending |-> "none",
             err |-> "none"]
    /\ connections = <<>>

---------------------------------------------------------------------------

\* strands_agent_search: the agent behind the MCP tab.

Arns == {"", "arn"}
StrandsPersonas == {"None", "unknown"} \cup Personas
StartOutcomes == {"started", "raises"}
ListingOutcomes == {"tools", "raises"}
\* agent(query) raises, or gives a response whose message is a dict with a
\* text block first, with another first element, with no content, or a
\* response without a message
AgentOutcomes == {"raises", "text", "not a dict", "no content", "no message"}

\* a Python dict literal: the items in the order written
Dict3(response, method, error) ==
    <<[key |-> "response", val |-> response], [key |-> "method", val |-> method],
      [key |-> "error", val |-> error]>>

\* get_mcp_client: None unless both ARNs are configured
get_mcp_client(cluster_arn, secret_arn) ==
    IF cluster_arn = "" \/ secret_arn = "" THEN "None" ELSE "MCPClient"

\* the except branch
AgentFailed(e, agent_called) ==
    [raised |-> "none", invoked |-> agent_called,
     dict |-> Dict3("Agent execution failed", "error", e)]

\* mutant: PERSONAS[persona] is looked up before the try block
StrandsAgentSearchLookupFirst(use_mcp, cluster_arn, secret_arn, persona, start, listing, agent) ==
    IF ~use_mcp
    THEN [raised |-> "none", invoked |-> FALSE,
          dict |-> Dict3("MCP not available. Using direct search.", "direct",
                         "MCP client not configured")]
    ELSE IF get_mcp_client(cluster_arn, secret_arn) = "None"
    THEN [raised |-> "none", invoked |-> FALSE,
          dict |-> Dict3("MCP client not configured.", "error",
                         "Missing MCP configuration")]
    ELSE IF persona \notin Personas
    THEN [raised |-> "KeyError", invoked |-> FALSE, dict |-> <<>>]
    ELSE IF listing = "raises" THEN AgentFailed("listing failed", FALSE)
    ELSE IF agent = "raises" THEN AgentFailed("agent failed", TRUE)
    ELSE IF agent = "not a dict" THEN AgentFailed("AttributeError", TRUE)
    ELSE [raised |-> "none", invoked |-> TRUE,
          dict |-> <<[key |-> "response",
                      val |-> IF agent = "text" THEN "text"
                              ELSE "str(response)"],
                     [key |-> "method", val |-> "strands_mcp"],
                     [key |-> "elapsed_time", val |-> "elapsed"],
                     [key |-> "available_tools", val |-> "tool names"],
                     [key |-> "error", val |-> "None"]>>]

\* what the function returns or raises, and whether it invoked the agent.
\* A failing mcp_client.start() is swallowed; every other failure inside the
\* try block reaches the except branch.
StrandsAgentSearch(use_mcp, cluster_arn, secret_arn, persona, start, listing, agent) ==
    IF ~use_mcp
    THEN [raised |-> "none", invoked |-> FALSE,
          dict |-> Dict3("MCP not available. Using direct search.", "direct",
                         "MCP client not configured")]
    ELSE IF get_mcp_client(cluster_arn, secret_arn) = "None"
    THEN [raised |-> "none", invoked |-> FALSE,
          dict |-> Dict3("MCP client not configured.", "error",
                         "Missing MCP configuration")]
    ELSE IF listing = "raises" THEN AgentFailed("listing failed", FALSE)
    ELSE IF persona \notin Personas THEN AgentFailed("KeyError", FALSE)
    ELSE IF agent = "raises" THEN AgentFailed("agent failed", TRUE)
    ELSE IF agent = "not a dict" THEN AgentFailed("AttributeError", TRUE)
    ELSE [raised |-> "none", invoked |-> TRUE,
          dict |-> <<[key |-> "response",
                      val |-> IF agent = "text" THEN "text"
                              ELSE "str(response)"],
                     [key |-> "method", val |-> "strands_mcp"],
                     [key |-> "elapsed_time", val |-> "elapsed"],
                     [key |-> "available_tools", val |-> "tool names"],
                     [key |-> "error", val |-> "None"]>>]

StrandsCall ==
    /\ strands = <<>>
    /\ \E use_mcp \in BOOLEAN, cluster_arn \in Arns, secret_arn \in Arns,
          persona \in StrandsPersonas, start \in StartOutcomes,
          listing \in ListingOutcomes, agent \in AgentOutcomes :
          strands' = [use_mcp |-> use_mcp, cluster_arn |-> cluster_arn,
                      secret_arn |-> secret_arn, persona |-> persona,
                      start |-> start, listing |-> listing, agent |-> agent,
                      out |-> StrandsAgentSearch(use_mcp, cluster_arn,
                                                 secret_arn, persona, start,
                                                 listing, agent)]
    /\ UNCHANGED <<fusionVars, rr, asyncVars, heapVars, sessionVars, dbVars,
                   loaderVars, gen>>

StrandsReturn ==
    /\ strands # <<>>
    /\ strands' = <<>>
    /\ UNCHANGED <<fusionVars, rr, asyncVars, heapVars, sessionVars, dbVars,
                   loaderVars, gen>>

InitStrands == strands = <<>>

---------------------------------------------------------------------------

\* scripts/setup/parallel-fast-loader.py: embeddings for the rows, then
\* store_products.  Rows are numbered 1..n in DataFrame order.

BATCH_SIZE == 1000
MaxRows == 2001

\* len(df): one row, around one batch, around two batches
RowCounts ==
    {1, BATCH_SIZE - 1, BATCH_SIZE, BATCH_SIZE + 1, 2 * BATCH_SIZE, MaxRows}

Texts == {"", "NaN", "text"}
\* the Cohere call raises, or its body has embeddings.float with a vector,
\* embeddings as a list of vectors, embeddings.float empty, or no embeddings
CohereOutcomes == {"raises", "float", "list", "empty float", "no embeddings"}
\* the Titan call raises, or its body has an embedding, or none
TitanOutcomes == {"raises", "embedding", "no embedding"}

\* the except branch of the Cohere call: Titan, then the seeded vector
TitanFallback(titan) ==
    IF titan = "raises"
    THEN [ret |-> "seeded random vector", models |-> <<"cohere", "titan">>,
          raised |-> "none"]
    ELSE [ret |-> IF titan = "embedding" THEN "titan vector" ELSE "None",
          models |-> <<"cohere", "titan">>, raised |-> "none"]

\* what generate_embedding_cohere returns, and the models it invoked
generate_embedding_cohere(text, cohere, titan) ==
    IF text \in {"", "NaN"}
    THEN [ret |-> "random vector", models |-> <<>>, raised |-> "none"]
    ELSE IF cohere \in {"float", "list"}
    THEN [ret |-> "cohere vector", models |-> <<"cohere">>, raised |-> "none"]
    ELSE IF cohere = "no embeddings"
    THEN [ret |-> "seeded random vector", models |-> <<"cohere">>,
          raised |-> "none"]
    ELSE TitanFallback(titan)

\* df['product_description'].parallel_apply(generate_embedding_cohere), one
\* row's call
EmbeddingCall ==
    /\ loader.pc = "idle"
    /\ emb = <<>>
    /\ \E text \in Texts, cohere \in CohereOutcomes, titan \in TitanOutcomes :
          emb' = [text |-> text, cohere |-> cohere, titan |-> titan,
                  out |-> generate_embedding_cohere(text, cohere, titan)]
    /\ UNCHANGED <<fusionVars, rr, asyncVars, heapVars, sessionVars, dbVars,
                   strands, loader, gen>>

EmbeddingReturn ==
    /\ emb # <<>>
    /\ emb' = <<>>
    /\ UNCHANGED <<fusionVars, rr, asyncVars, heapVars, sessionVars, dbVars,
                   strands, loader, gen>>

\* store_products up to the loop: connect, TRUNCATE, batches = [],
\* total_processed = 0
StoreProducts ==
    /\ loader.pc = "idle"
    /\ emb = <<>>
    /\ \E n \in RowCounts :
          loader' = [pc |-> "loop", n |-> n, i |-> 0, batches |-> <<>>,
                     total_processed |-> 0, sent |-> <<>>]
    /\ UNCHANGED <<fusionVars, rr, asyncVars, heapVars, sessionVars, dbVars,
                   strands, emb, gen>>

\* mutant: only a full batch is flushed
FlushOnlyWhenFull(batches, i, n) == Len(batches) = BATCH_SIZE

\* if len(batches) == BATCH_SIZE or i == len(df)
Flush(batches, i, n) == Len(batches) = BATCH_SIZE \/ i = n

\* one turn of the loop: the row joins the batch; a due batch goes to
\* executemany, is counted and is emptied
StoreRow ==
    /\ loader.pc = "loop"
    /\ loader.i < loader.n
    /\ LET i == loader.i + 1
           batches == Append(loader.batches, i)
       IN  IF Flush(batches, i, loader.n)
           THEN loader' = [loader EXCEPT
                             !.i = i,
                             !.sent = Append(loader.sent, batches),
                             !.total_processed =
                                 loader.total_processed + Len(batches),
                             !.batches = <<>>]
           ELSE loader' = [loader EXCEPT !.i = i, !.batches = batches]
    /\ UNCHANGED <<fusionVars, rr, asyncVars, heapVars, sessionVars, dbVars,
                   strands, emb, gen>>

\* executemany raises: the error is printed and raised again, the
\* connection closed
ExecutemanyRaises ==
    /\ loader.pc = "loop"
    /\ loader.i < loader.n
    /\ LET i == loader.i + 1
           batches == Append(loader.batches, i)
       IN  /\ Flush(batches, i, loader.n)
           /\ loader' = [loader EXCEPT !.pc = "raised", !.i = i,
                                       !.batches = batches]
    /\ UNCHANGED <<fusionVars, rr, asyncVars, heapVars, sessionVars, dbVars,
                   strands, emb, gen>>

\* the loop is over: indexes, VACUUM, statistics, close
StoreDone ==
    /\ loader.pc = "loop"
    /\ loader.i = loader.n
    /\ loader' = [loader EXCEPT !.pc = "done"]
    /\ UNCHANGED <<fusionVars, rr, asyncVars, heapVars, sessionVars, dbVars,
                   strands, emb, gen>>

InitLoader ==
    /\ emb = <<>>
    /\ loader = [pc |-> "idle", n |-> 0, i |-> 0, batches |-> <<>>,
                 total_processed |-> 0, sent |-> <<>>]

---------------------------------------------------------------------------

\* scripts/data-generation/incident_logs_generator.py:
\* FixedIncidentGenerator.generate_dataset.

MaxTarget == 12

\* three of the archetypes of _define_enhanced_archetypes; each has patterns
\* for all four personas
Archetypes ==
    {"connection_exhaustion_spike", "slow_connection_leak", "deadlock_cascade"}
\* random.choices([2, 3, 4], ...): the personas observing an incident
ClusterSizes == {2, 3, 4}
\* two instants an hour apart, across midnight
Datetimes == {[day |-> 9, hour |-> 23], [day |-> 10, hour |-> 0]}

\* datetime.isoformat(): every field zero-padded to its width
IsoFormat(t) ==
    <<t.day \div 10, t.day % 10>> \o <<t.hour \div 10, t.hour % 10>>

\* a < b or a = b for Python strings
RECURSIVE StrLe(_, _)
StrLe(a, b) ==
    IF a = <<>> THEN TRUE
    ELSE IF b = <<>> THEN FALSE
    ELSE IF Head(a) # Head(b) THEN Head(a) < Head(b)
    ELSE StrLe(Tail(a), Tail(b))

LogEntry(kind, t) == [kind |-> kind, time |-> t, timestamp |-> IsoFormat(t)]

\* list.sort(key=lambda x: x['mcp_metadata']['timestamp']): stable, ascending
RECURSIVE InsertByTimestamp(_, _)
InsertByTimestamp(sorted, x) ==
    IF sorted = <<>> THEN <<x>>
    ELSE IF StrLe(Head(sorted).timestamp, x.timestamp)
         THEN <<Head(sorted)>> \o InsertByTimestamp(Tail(sorted), x)
         ELSE <<x>> \o sorted

RECURSIVE SortByTimestamp(_, _)
SortByTimestamp(logs, k) ==
    IF k = 0 THEN <<>>
    ELSE InsertByTimestamp(SortByTimestamp(logs, k - 1), logs[k])

MinUsed(archetype_usage) ==
    CHOOSE m \in {archetype_usage[a] : a \in Archetypes} :
        \A a \in Archetypes : m <= archetype_usage[a]

\* mutant: any archetype may be chosen
AnyArchetype(archetype_usage) == Archetypes

\* the archetypes used least so far
AvailableArchetypes(archetype_usage) ==
    {a \in Archetypes : archetype_usage[a] = MinUsed(archetype_usage)}

\* FixedIncidentGenerator(target_logs).generate_dataset(), up to the loop
GenerateDataset ==
    /\ gen.pc = "idle"
    /\ \E target_logs \in 0..MaxTarget :
          gen' = [pc |-> "incidents", target_logs |-> target_logs,
                  num_incidents |-> target_logs \div 4, i |-> 0,
                  archetype_usage |-> [a \in Archetypes |-> 0],
                  all_logs |-> <<>>]
    /\ UNCHANGED <<fusionVars, rr, asyncVars, heapVars, sessionVars, dbVars,
                   strands, loaderVars>>

\* one turn of the loop: an archetype among the least used, and its cluster
\* of one log entry per observing persona
IncidentCluster ==
    /\ gen.pc = "incidents"
    /\ gen.i < gen.num_incidents
    /\ \E archetype \in AvailableArchetypes(gen.archetype_usage),
          size \in ClusterSizes :
       \E times \in [1..size -> Datetimes] :
          gen' = [gen EXCEPT
                    !.i = gen.i + 1,
                    !.archetype_usage[archetype] = @ + 1,
                    !.all_logs = @ \o [k \in 1..size |->
                                          LogEntry("incident", times[k])]]
    /\ UNCHANGED <<fusionVars, rr, asyncVars, heapVars, sessionVars, dbVars,
                   strands, loaderVars>>

\* after the loop: info logs up to the target, the sort, the return
FillAndSort ==
    /\ gen.pc = "incidents"
    /\ gen.i = gen.num_incidents
    /\ LET current_count == Len(gen.all_logs)
           info_logs_needed ==
               IF gen.target_logs - current_count > 0
               THEN gen.target_logs - current_count ELSE 0
       IN  \E times \in [1..info_logs_needed -> Datetimes] :
              LET all_logs == gen.all_logs \o
                              [k \in 1..info_logs_needed |->
                                  LogEntry("info", times[k])]
              IN  gen' = [gen EXCEPT
                            !.pc = "returned",
                            !.all_logs = SortByTimestamp(all_logs,
                                                         Len(all_logs))]
    /\ UNCHANGED <<fusionVars, rr, asyncVars, heapVars, sessionVars, dbVars,
                   strands, loaderVars>>

InitGen ==
    gen = [pc |-> "idle", target_logs |-> 0, num_incidents |-> 0, i |-> 0,
           archetype_usage |-> [a \in Archetypes |-> 0], all_logs |-> <<>>]

---------------------------------------------------------------------------

\* the caller takes the result; the next call starts from scratch
Return ==
    /\ fn # "idle"
    /\ fn' = "idle"
    /\ args' = <<>>
    /\ fetched' = <<>>
    /\ invoked' = <<>>
    /\ ret' = <<>>
    /\ err' = "none"
    /\ UNCHANGED <<rr, asyncVars, heapVars, sessionVars, dbVars, strands,
                   loaderVars, gen>>

InitFusion ==
    /\ fn = "idle"
    /\ args = <<>>
    /\ fetched = <<>>
    /\ invoked = <<>>
    /\ ret = <<>>
    /\ err = "none"

InitRerank == rr = <<>>

Init == InitFusion /\ InitRerank /\ InitAsync /\ InitHeap /\ InitSession
        /\ InitDb /\ InitStrands /\ InitLoader /\ InitGen

NextFusion == HybridSearch \/ RrfSearch \/ HybridSearch3 \/ Return

SpecFusion == Init /\ [][NextFusion]_vars

NextRerank == Rerank \/ RerankReturn

SpecRerank == Init /\ [][NextRerank]_vars

\* searches during which a retrieval provider raises
NextProviders == HybridSearchProviderFails \/ RrfSearchProviderFails \/ Return

SpecProviders == Init /\ [][NextProviders]_vars

\* weighted searches repeated with other weights
NextSliders ==
    \/ HybridSearch \/ HybridSearch3
    \/ HybridSearchAgain \/ HybridSearch3Again
    \/ Return

SpecSliders == Init /\ [][NextSliders]_vars

NextAsync ==
    \/ RunSearchAsync
    \/ \E m \in 1..MaxMethods :
          /\ m <= methods
          /\ \/ Submit(m) \/ StartMethod(m) \/ ProviderReturns(m)
             \/ MethodRaises(m) \/ MethodReturns(m) \/ Collect(m)
    \/ AsyncReturn
    \/ AsyncDone

SpecAsync == Init /\ [][NextAsync]_vars

NextHeap == HybridSearchOnHeap \/ RrfSearchOnHeap \/ RerankOnHeap \/ HeapReturn

SpecHeap == Init /\ [][NextHeap]_vars

NextSession == ComparisonSearch \/ HistoryClick \/ SelectPersona

SpecSession == Init /\ [][NextSession]_vars

NextDb ==
    \/ ProviderCall \/ GenerateEmbedding \/ Connect \/ RegisterVector
    \/ SetThreshold \/ Execute \/ BuildRows \/ Close

SpecDb == Init /\ [][NextDb]_vars

NextStrands == StrandsCall \/ StrandsReturn

SpecStrands == Init /\ [][NextStrands]_vars

NextLoader ==
    \/ EmbeddingCall \/ EmbeddingReturn
    \/ StoreProducts \/ StoreRow \/ ExecutemanyRaises \/ StoreDone

SpecLoader == Init /\ [][NextLoader]_vars

NextGen == GenerateDataset \/ IncidentCluster \/ FillAndSort

SpecGen == Init /\ [][NextGen]_vars

---------------------------------------------------------------------------
(* What the claims speak about, read off the state of a finished call.     *)

Weighted == fn \in {"hybrid_search", "hybrid_search3"}
Fused == fn \in {"hybrid_search", "rrf_search", "hybrid_search3"}

\* a row of a fetched provider list
RowId(row) == IF fn = "hybrid_search3" THEN row.doc_id ELSE row.productId
RowPayload(row) == IF fn = "hybrid_search3" THEN row.content ELSE row.description

\* an item of the returned list
ItemId(item) == IF fn = "hybrid_search3" THEN item.key ELSE item.productId
ItemScore(item) ==
    IF fn = "hybrid_search3" THEN item.val.combined_score ELSE item.score
ItemPayload(item) ==
    IF fn = "hybrid_search3" THEN item.val.content ELSE item.description

Contains(list, id) == \E i \in 1..Len(list) : RowId(list[i]) = id
RankIn(list, id) == CHOOSE i \in 1..Len(list) : RowId(list[i]) = id
RawIn(list, id) == list[RankIn(list, id)].score

AllIds == UNION {{RowId(fetched[j][i]) : i \in 1..Len(fetched[j])} :
                    j \in 1..Len(fetched)}
RetIds == {ItemId(ret[i]) : i \in 1..Len(ret)}

\* the weight given to the j-th method and the sum of the weights given
WeightOf(j) ==
    IF fn = "hybrid_search"
    THEN (IF invoked[j] = "Semantic" THEN args.semantic_weight
                                     ELSE args.keyword_weight)
    ELSE args.weights[invoked[j]]
WeightSum ==
    IF fn = "hybrid_search"
    THEN args.semantic_weight + args.keyword_weight
    ELSE args.weights.semantic + args.weights.trigram + args.weights.fulltext

\* sum over the first j methods whose list contains id of
\* raw_score * (weight / sum of weights)
RECURSIVE WeightedSumRaw(_, _)
WeightedSumRaw(id, j) ==
    IF j = 0 THEN RZero
    ELSE RAdd(WeightedSumRaw(id, j - 1),
              IF Contains(fetched[j], id)
              THEN RMul(RawIn(fetched[j], id), Rat(WeightOf(j), WeightSum))
              ELSE RZero)

\* the same sum with the fulltext raw score capped at 1.0
RECURSIVE WeightedSumCapped(_, _)
WeightedSumCapped(id, j) ==
    IF j = 0 THEN RZero
    ELSE RAdd(WeightedSumCapped(id, j - 1),
              IF Contains(fetched[j], id)
              THEN RMul(IF invoked[j] = "fulltext"
                        THEN RMin(RawIn(fetched[j], id), ROne)
                        ELSE RawIn(fetched[j], id),
                        Rat(WeightOf(j), WeightSum))
              ELSE RZero)

\* sum over the first j lists that contain id of 1/(k + rank)
RECURSIVE RankSum(_, _)
RankSum(id, j) ==
    IF j = 0 THEN RZero
    ELSE RAdd(RankSum(id, j - 1),
              IF Contains(fetched[j], id)
              THEN Rat(1, args.k + RankIn(fetched[j], id))
              ELSE RZero)

\* the combined score of id, whether returned or cut off by the limit
CombinedScore(id) ==
    IF fn = "rrf_search" THEN RankSum(id, Len(fetched))
    ELSE WeightedSumCapped(id, Len(fetched))

\* the first list, in processing order, that contains id
FirstList(id) == CHOOSE j \in 1..Len(fetched) :
                    /\ Contains(fetched[j], id)
                    /\ \A h \in 1..(j - 1) : ~Contains(fetched[h], id)
\* a is seen before b while the method lists are iterated
SeenBefore(a, b) ==
    \/ FirstList(a) < FirstList(b)
    \/ /\ FirstList(a) = FirstList(b)
       /\ RankIn(fetched[FirstList(a)], a) < RankIn(fetched[FirstList(b)], b)

NumberOfLists(id) == Cardinality({j \in 1..Len(fetched) : Contains(fetched[j], id)})

---------------------------------------------------------------------------
(* C1  The combined score weighted hybrid_search gives an id is the sum,   *)
(* over the methods whose list contains the id, of raw_score * (weight /   *)
(* sum of weights); absent methods contribute 0; no re-normalization.      *)
(* As stated (every raw score used as returned) it fails on the            *)
(* three-method hybrid_search, which caps the fulltext score at 1.0.       *)
C1_OriginalRawScoreSum ==
    (Weighted /\ err = "none") =>
        \A i \in 1..Len(ret) :
            ItemScore(ret[i]) = WeightedSumRaw(ItemId(ret[i]), Len(fetched))

(* C1 amended: the same sum, where the three-method hybrid_search uses     *)
(* min(raw_score, 1.0) for the fulltext method.                            *)
C1_WeightedScoreSum ==
    (Weighted /\ err = "none") =>
        \A i \in 1..Len(ret) :
            ItemScore(ret[i]) = WeightedSumCapped(ItemId(ret[i]), Len(fetched))

\* an id found by semantic and by fulltext, its fulltext score above 1.0
\* and both weights positive, is returned together with an id that only
\* one method found
C1_Witness ==
    /\ fn = "hybrid_search3" /\ err = "none" /\ Len(ret) = 2
    /\ args.weights.semantic > 0 /\ args.weights.fulltext > 0
    /\ \E i \in 1..2 :
          /\ Contains(fetched[1], ItemId(ret[i]))
          /\ Contains(fetched[3], ItemId(ret[i]))
          /\ RawIn(fetched[3], ItemId(ret[i])) = <<2, 1>>
    /\ \E i \in 1..2 : NumberOfLists(ItemId(ret[i])) = 1

(* C2  For k > 0 the score rrf_search gives an id is the sum, over the     *)
(* lists containing the id, of 1/(k + rank), rank being the 1-based        *)
(* position; a list lacking the id contributes 0.                          *)
C2_RrfScoreSum ==
    (fn = "rrf_search" /\ args.k > 0) =>
        /\ err = "none"
        /\ \A i \in 1..Len(ret) :
              ret[i].score = RankSum(ret[i].productId, Len(fetched))

\* the hand-checked scenario: k = 1, A = [x, y], B = [y, z] gives y = 5/6
\* ahead of x = 1/2
C2_Witness ==
    /\ fn = "rrf_search" /\ args.k = 1 /\ Len(ret) = 2
    /\ Len(fetched[1]) = 2 /\ Len(fetched[2]) = 2 /\ fetched[3] = <<>>
    /\ fetched[1][1].productId = "x" /\ fetched[1][2].productId = "y"
    /\ fetched[2][1].productId = "y" /\ fetched[2][2].productId = "z"
    /\ ret[1].productId = "y" /\ ret[1].score = <<5, 6>>
    /\ ret[2].productId = "x" /\ ret[2].score = <<1, 2>>

(* C3  The fused list is sorted in non-increasing order of combined score  *)
(* and ids of equal combined score keep the order in which they were       *)
(* first seen while the method lists were iterated.                        *)
C3_SortedStable ==
    (Fused /\ err = "none") =>
        \A i, j \in 1..Len(ret) : i < j =>
            /\ RLe(ItemScore(ret[j]), ItemScore(ret[i]))
            /\ ItemScore(ret[i]) = ItemScore(ret[j]) =>
                  SeenBefore(ItemId(ret[i]), ItemId(ret[j]))

\* z and x tie; z was seen first and stays first, although x precedes z
\* as an id and x has the higher raw score in the keyword list
C3_Witness ==
    /\ fn = "hybrid_search" /\ err = "none" /\ Len(ret) = 2
    /\ ret[1].productId = "z" /\ ret[2].productId = "x"
    /\ ret[1].score = ret[2].score
    /\ Contains(fetched[1], "z") /\ ~Contains(fetched[1], "x")
    /\ Contains(fetched[2], "x")
    /\ RLt(RawIn(fetched[1], "z"), RawIn(fetched[2], "x"))

(* C4  The fused list has min(limit, number of distinct ids) items, and    *)
(* no id left out has a strictly higher combined score than a returned id. *)
C4_LengthAndTop ==
    (Fused /\ err = "none") =>
        /\ Len(ret) = IF args.limit < Cardinality(AllIds)
                      THEN args.limit ELSE Cardinality(AllIds)
        /\ \A id \in AllIds \ RetIds : \A i \in 1..Len(ret) :
              ~RLt(ItemScore(ret[i]), CombinedScore(id))

\* the limit cuts off an id that was seen before the id returned
C4_Witness ==
    /\ Fused /\ err = "none" /\ args.limit = 1 /\ Len(ret) = 1
    /\ \E id \in AllIds \ RetIds :
          /\ SeenBefore(id, ItemId(ret[1]))
          /\ RLt(CombinedScore(id), ItemScore(ret[1]))

(* C5  No id appears twice in the fused list.                              *)
C5_UniqueIds ==
    (Fused /\ err = "none") =>
        \A i, j \in 1..Len(ret) : i < j => ItemId(ret[i]) # ItemId(ret[j])

\* an id returned by all three methods, and one returned by two, are in
\* the output
C5_Witness ==
    /\ fn = "rrf_search" /\ err = "none"
    /\ \E i, j \in 1..Len(ret) :
          /\ NumberOfLists(ret[i].productId) = 3
          /\ NumberOfLists(ret[j].productId) = 2

(* C6  The payload of a fused item is that of the first method list, in    *)
(* processing order, that contained its id.                                *)
C6_FirstSeenPayload ==
    (Fused /\ err = "none") =>
        \A i \in 1..Len(ret) :
            LET id == ItemId(ret[i])
                first == fetched[FirstList(id)]
            IN  ItemPayload(ret[i]) = RowPayload(first[RankIn(first, id)])

\* an id whose first list is the keyword list also comes back from the
\* fuzzy list, and an id of the semantic list from the keyword list
C6_Witness ==
    /\ fn = "rrf_search" /\ err = "none"
    /\ \E i, j \in 1..Len(ret) :
          /\ FirstList(ret[i].productId) = 2
          /\ Contains(fetched[3], ret[i].productId)
          /\ ret[i].description = "Keyword"
          /\ FirstList(ret[j].productId) = 1
          /\ Contains(fetched[2], ret[j].productId)
          /\ ret[j].description = "Semantic"

C8_RejectsNonPositiveK ==
    (fn = "rrf_search" /\ args.k <= 0) =>
        /\ err = "InvalidConfiguration"
        /\ invoked = <<>>
        /\ ret = <<>>

---------------------------------------------------------------------------
(* Claims about rerank_results.                                            *)

Reranked == rr # <<>> /\ rr.results # <<>>

\* the response of the provider call is a failure or is malformed
Malformed(response, results) ==
    \/ response.kind = "exception"
    \/ ~response.has_results
    \/ \E i \in 1..Len(response.results) :
          LET item == response.results[i]
          IN  \/ ~item.has_index
              \/ ~item.has_score
              \/ item.index < 0
              \/ item.index >= Len(results)

(* C9  For a non-empty candidate list and a failed or malformed rerank     *)
(* response, rerank_results returns the first top_k candidates, in input   *)
(* order and unchanged, and does not raise.                                *)
C9_FailSoft ==
    (Reranked /\ Malformed(rr.response, rr.results)) =>
        /\ rr.err = "none"
        /\ rr.ret = Take(rr.results, rr.top_k)

(* C10  When the rerank call succeeds, the output follows the order of     *)
(* the provider's items: each output item is the candidate at the item's   *)
(* index, with rerank_score set to the item's relevance_score and its      *)
(* prior score field unchanged.                                            *)
C10_RerankedOrder ==
    (Reranked /\ ~Malformed(rr.response, rr.results)) =>
        /\ rr.err = "none"
        /\ Len(rr.ret) = Len(rr.response.results)
        /\ \A i \in 1..Len(rr.ret) :
              LET item == rr.response.results[i]
                  candidate == rr.results[item.index + 1]
              IN  /\ rr.ret[i].rerank_score = item.relevance_score
                  /\ \A f \in DOMAIN candidate : rr.ret[i][f] = candidate[f]

\* the provider swaps two candidates whose fused scores differ
C10_Witness ==
    /\ Reranked /\ ~Malformed(rr.response, rr.results)
    /\ Len(rr.results) = 2 /\ Len(rr.ret) = 2
    /\ rr.results[1].score # rr.results[2].score
    /\ rr.response.results[1].index = 1 /\ rr.response.results[2].index = 0
    /\ rr.response.results[1].relevance_score = 2
    /\ rr.response.results[2].relevance_score = 1
    /\ rr.ret[1].productId = rr.results[2].productId
    /\ rr.ret[1].score = rr.results[2].score

---------------------------------------------------------------------------
(* Claims about provider failures and empty lists.                         *)

\* the last provider invoked raised instead of returning a list
ProviderRaised == Fused /\ Len(invoked) > Len(fetched)

(* C11  When a retrieval provider fails during hybrid_search or rrf_search *)
(* while another provider has succeeded, the failed provider counts as an  *)
(* empty list and the search returns the ranking computed from the         *)
(* providers that succeeded, instead of failing.                           *)
C11_FailedProviderCountsAsEmpty ==
    (ProviderRaised /\ Len(fetched) >= 1) =>
        /\ err = "none"
        /\ Len(ret) = IF args.limit < Cardinality(AllIds)
                      THEN args.limit ELSE Cardinality(AllIds)
        /\ \A i \in 1..Len(ret) :
              ItemScore(ret[i]) = CombinedScore(ItemId(ret[i]))

\* what the j-th list adds to the combined score of id
Contribution(id, j) ==
    IF ~Contains(fetched[j], id) THEN RZero
    ELSE IF fn = "rrf_search" THEN Rat(1, args.k + RankIn(fetched[j], id))
    ELSE RMul(IF invoked[j] = "fulltext"
              THEN RMin(RawIn(fetched[j], id), ROne)
              ELSE RawIn(fetched[j], id),
              Rat(WeightOf(j), WeightSum))

\* the combined score of id computed from the non-empty lists alone
RECURSIVE ScoreFromNonEmpty(_, _)
ScoreFromNonEmpty(id, j) ==
    IF j = 0 THEN RZero
    ELSE IF fetched[j] = <<>> THEN ScoreFromNonEmpty(id, j - 1)
    ELSE RAdd(ScoreFromNonEmpty(id, j - 1), Contribution(id, j))

NonEmptyLists == {j \in 1..Len(fetched) : fetched[j] # <<>>}

\* the fetched lists with the empty ones moved behind the non-empty ones
Compacted ==
    LET ne == SelectSeq(fetched, LAMBDA l : l # <<>>)
    IN  [j \in 1..Len(fetched) |-> IF j <= Len(ne) THEN ne[j] ELSE <<>>]

(* C12  If a provider list is empty and another is not (limit >= 1), the   *)
(* fused search returns a non-empty list whose scores are those computed   *)
(* from the non-empty lists alone: the empty list changes neither scores   *)
(* nor order.  With one non-empty list the output follows that list's      *)
(* order; rrf_search returns what it returns for the non-empty lists       *)
(* without the empty one between or before them.                           *)
C12_EmptyListNeutral ==
    (/\ Fused /\ err = "none" /\ args.limit >= 1
     /\ Len(fetched) = Len(invoked)
     /\ NonEmptyLists # {} /\ NonEmptyLists # 1..Len(fetched)) =>
        /\ ret # <<>>
        /\ \A i \in 1..Len(ret) :
              ItemScore(ret[i]) = ScoreFromNonEmpty(ItemId(ret[i]), Len(fetched))
        /\ \A j \in NonEmptyLists : NonEmptyLists = {j} =>
              /\ Len(ret) = IF args.limit < Len(fetched[j])
                            THEN args.limit ELSE Len(fetched[j])
              /\ \A i \in 1..Len(ret) :
                    /\ ItemId(ret[i]) = RowId(fetched[j][i])
                    /\ ItemPayload(ret[i]) = RowPayload(fetched[j][i])
        /\ fn = "rrf_search" =>
              ret = FuseRRF(Compacted[1], Compacted[2], Compacted[3],
                            args.k, args.limit)

\* the semantic list is empty (the embedding could not be generated), the
\* keyword and fuzzy lists share an id, and two items come back
C12_Witness ==
    /\ fn = "rrf_search" /\ err = "none" /\ args.limit = 2
    /\ fetched[1] = <<>> /\ Len(fetched[2]) = 2 /\ Len(fetched[3]) = 2
    /\ Len(ret) = 2
    /\ NumberOfLists(ret[1].productId) = 2
    /\ NumberOfLists(ret[2].productId) = 1

(* C13  When every provider list is empty (and the weights are valid, so   *)
(* that the providers were queried), hybrid_search and rrf_search return   *)
(* an empty list and raise no error.                                       *)
C13_AllEmpty ==
    (/\ Fused /\ Len(fetched) > 0 /\ Len(fetched) = Len(invoked)
     /\ NonEmptyLists = {}) =>
        /\ err = "none"
        /\ ret = <<>>

\* both providers of a 0.7 / 0.3 weighted search of two items find nothing
C13_Witness ==
    /\ fn = "hybrid_search" /\ args.limit = 2
    /\ args.semantic_weight = 7 /\ args.keyword_weight = 3
    /\ fetched = << <<>>, <<>> >>
    /\ err = "none" /\ ret = <<>>

---------------------------------------------------------------------------
(* Claims about the weights, stated of a search repeated on the same       *)
(* lists with other weights.                                               *)

\* a step from a weighted search that returned to the same search on the
\* same lists
SearchedAgain ==
    /\ Weighted /\ err = "none"
    /\ fn' = fn /\ err' = "none"
    /\ fetched' = fetched /\ args'.limit = args.limit

\* the step raises the weight of the j-th method and keeps the others
Raised(j) ==
    /\ WeightOf(j)' > WeightOf(j)
    /\ \A h \in 1..Len(invoked) : h # j => WeightOf(h)' = WeightOf(h)

\* the step multiplies every weight by c
Scaled(c) == \A j \in 1..Len(invoked) : WeightOf(j)' = c * WeightOf(j)

\* a has a positive score in the j-th list and none elsewhere
PositiveOnlyOn(a, j) ==
    /\ Contains(fetched[j], a)
    /\ RLt(RZero, RawIn(fetched[j], a))
    /\ \A h \in 1..Len(fetched) :
          (h # j /\ Contains(fetched[h], a)) => RawIn(fetched[h], a) = RZero

\* a is in the output r and b is not ahead of it
Above(r, a, b) ==
    \E i \in 1..Len(r) :
        /\ ItemId(r[i]) = a
        /\ \A h \in 1..i : ItemId(r[h]) # b

(* C15  Weight monotonicity: for fixed lists and ids a, b, where a has a   *)
(* positive score only on method M, raising M's weight (the others fixed,  *)
(* then re-normalizing) never moves a from above b to below b.  As stated  *)
(* it fails when M's weight was 0: a and b then tie at 0 in first-seen     *)
(* order, and the raised weight ranks them by their M scores.              *)
C15_OriginalMonotone ==
    [][SearchedAgain =>
          \A j \in 1..Len(invoked) : \A a, b \in AllIds :
              (/\ a # b /\ Raised(j) /\ PositiveOnlyOn(a, j)
               /\ Above(ret, a, b)) => ~Above(ret', b, a)]_vars

(* C15 amended: the same, provided M's weight is positive before it is     *)
(* raised (and raw scores are not negative).                               *)
C15_MonotoneFromPositive ==
    [][SearchedAgain =>
          \A j \in 1..Len(invoked) : \A a, b \in AllIds :
              (/\ a # b /\ Raised(j) /\ WeightOf(j) > 0
               /\ PositiveOnlyOn(a, j)
               /\ Above(ret, a, b)) => ~Above(ret', b, a)]_vars

\* the semantic slider went from 0.5 to 1.0 (trigram 0.5, fulltext 0): x,
\* found by semantic only, tied with y, found by trigram only, and was
\* first by first-seen order; it now leads by score
C15_Witness ==
    /\ fn = "hybrid_search3" /\ err = "none"
    /\ args.weights = Weights3(10, 5, 0)
    /\ PositiveOnlyOn("x", 1) /\ ~Contains(fetched[2], "x")
    /\ PositiveOnlyOn("y", 2) /\ RawIn(fetched[2], "y") = RawIn(fetched[1], "x")
    /\ Len(ret) = 2
    /\ ItemId(ret[1]) = "x" /\ ItemId(ret[2]) = "y"
    /\ RLt(ItemScore(ret[2]), ItemScore(ret[1]))

\* the sum of the normalized weights of the search
RECURSIVE NormalizedWeightSum(_)
NormalizedWeightSum(j) ==
    IF j = 0 THEN RZero
    ELSE RAdd(NormalizedWeightSum(j - 1),
              IF fn = "hybrid_search3"
              THEN NormalizeWeights(args.weights)[invoked[j]]
              ELSE Rat(WeightOf(j), WeightSum))

---------------------------------------------------------------------------
(* Claims about run_search_async.                                          *)

(* C17  Whatever the order in which the submitted methods complete or      *)
(* fail, run_search_async returns only after all of them have finished,    *)
(* and 'results' and 'timings' then have exactly one entry per submitted   *)
(* method: a method that raised has the empty list and timing 0, every     *)
(* other method has the value its own function returned.                   *)
C17_OneEntryPerMethod ==
    pc = "returned" =>
        /\ Finished = 1..methods
        /\ DOMAIN results_data = 1..methods
        /\ DOMAIN timings_data = 1..methods
        /\ \A m \in 1..methods :
              IF future[m].state = "raised"
              THEN results_data[m] = <<>> /\ timings_data[m] = "0"
              ELSE results_data[m] = ReturnValue(m) /\ timings_data[m] = "elapsed"

\* six methods for five workers: the first and the Hybrid (RRF) method
\* raised, the others returned
C17_Witness ==
    /\ pc = "returned" /\ methods = MaxMethods
    /\ future[1].state = "raised" /\ future[5].state = "raised"
    /\ \A m \in {2, 3, 4, 6} : future[m].state = "returned"
    /\ results_data[5] = <<>> /\ results_data[6] = <<6>>

(* C18  At every moment of a run_search_async call at most 5 method        *)
(* functions are executing, however many were submitted, and, each method  *)
(* calling its providers one after another, at most 5 provider calls are   *)
(* in flight.                                                              *)
C18_AtMostFiveWorkers ==
    /\ Cardinality(Running) <= MaxWorkers
    /\ Cardinality(InFlight) <= MaxWorkers
    /\ InFlight \subseteq Running

\* five methods are inside a provider call, Hybrid (RRF) in its third,
\* while the sixth waits in the queue
C18_Witness ==
    /\ methods = MaxMethods
    /\ Cardinality(InFlight) = MaxWorkers
    /\ future[5].call = 3
    /\ future[6].state = "queued"

---------------------------------------------------------------------------
(* Claims about the per-method scores of the three-method hybrid_search.   *)

\* the raw score the j-th list gives id, 0 when the list lacks it
RawOrZero(id, j) ==
    IF Contains(fetched[j], id) THEN RawIn(fetched[j], id) ELSE RZero

(* C19  In the three-method hybrid_search the fulltext score entering the  *)
(* fusion and the per-method score map is min(raw, 1.0), a zero or absent  *)
(* raw score counting as 0; semantic and trigram scores are used as        *)
(* returned; so the fulltext share of a combined score never exceeds the   *)
(* normalized fulltext weight.                                             *)
C19_FulltextCapped ==
    (fn = "hybrid_search3" /\ err = "none") =>
        \A i \in 1..Len(ret) :
            LET id == ret[i].key
                scores == ret[i].val.scores
                w == NormalizeWeights(args.weights)
                share == RMul(scores.fulltext, w.fulltext)
            IN  /\ scores.semantic = RawOrZero(id, 1)
                /\ scores.trigram = RawOrZero(id, 2)
                /\ scores.fulltext = RMin(RawOrZero(id, 3), ROne)
                /\ ret[i].val.combined_score =
                      RAdd(RAdd(RMul(scores.semantic, w.semantic),
                                RMul(scores.trigram, w.trigram)), share)
                /\ RLe(share, w.fulltext)

\* Keyword-Heavy preset: an id with fulltext rank 2.0 and semantic score 1
\* is returned with fulltext score 1.0, next to an id whose fulltext rank
\* is 0
C19_Witness ==
    /\ fn = "hybrid_search3" /\ err = "none"
    /\ args.weights = Weights3(2, 1, 7)
    /\ Len(ret) = 2
    /\ RawOrZero(ret[1].key, 3) = <<2, 1>>
    /\ RawOrZero(ret[1].key, 1) = ROne
    /\ ret[1].val.scores.fulltext = ROne
    /\ ret[1].val.combined_score = <<9, 10>>
    /\ Contains(fetched[3], ret[2].key)
    /\ ret[2].val.scores.fulltext = RZero

---------------------------------------------------------------------------
(* Claims about the objects a call is given.                               *)

\* the label the fusion functions write into the items they return
FusedLabel == IF refs.fn = "hybrid_search" THEN "Hybrid (Weighted)"
              ELSE "Hybrid (RRF)"

(* C20  Fusion and reranking do not modify their inputs: after             *)
(* hybrid_search, rrf_search or rerank_results returns, every item the     *)
(* providers returned and every candidate given to rerank_results has its  *)
(* original score, method and other fields; the new score, method label    *)
(* and rerank_score are written to copies only.                            *)
C20_InputsUnchanged ==
    refs # <<>> =>
        /\ \A a \in 1..Len(refs.given) : heap[a] = refs.given[a]
        /\ \A i \in 1..Len(refs.ret) :
              LET item == heap[refs.ret[i]] IN
              IF refs.fn = "rerank_results"
              THEN "rerank_score" \in DOMAIN item => refs.ret[i] > Len(refs.given)
              ELSE item.method = FusedLabel /\ refs.ret[i] > Len(refs.given)

\* hybrid_search returned two items; the first is the copy of a keyword
\* item whose score, 2.0, differs from the fused one
C20_Witness ==
    /\ refs # <<>> /\ refs.fn = "hybrid_search" /\ Len(refs.ret) = 2
    /\ \E a \in 1..Len(refs.given) :
          /\ heap[a].productId = heap[refs.ret[1]].productId
          /\ heap[a].method = "Keyword"
          /\ heap[a].score = <<2, 1>>
          /\ heap[refs.ret[1]].description = "Keyword"
          /\ heap[refs.ret[1]].score # heap[a].score

---------------------------------------------------------------------------
(* The SQL text that get_sql_explanation shows for 'Hybrid (RRF)'.         *)

\* COALESCE(s.rank, 1000): the rank of the displayed query's CTE, 1000 for
\* a product the CTE lacks
SqlRank(list, id) == IF Contains(list, id) THEN RankIn(list, id) ELSE 1000

\* (1.0 / (60 + COALESCE(s.rank, 1000))) + (1.0 / (60 + COALESCE(k.rank,
\* 1000))) + (1.0 / (60 + COALESCE(f.rank, 1000))) as rrf_score
SqlRrfScore(lists, id) ==
    RAdd(RAdd(Rat(1, 60 + SqlRank(lists[1], id)),
              Rat(1, 60 + SqlRank(lists[2], id))),
         Rat(1, 60 + SqlRank(lists[3], id)))

(* C21  The SQL shown for 'Hybrid (RRF)' is the query executed: for every  *)
(* product and every combination of per-method ranks, a product absent     *)
(* from one or two methods included, the rrf_score of the displayed SQL    *)
(* equals the score rrf_search computes (k = 60, as the comparison tab     *)
(* calls it), and both give the same order.                                *)
C21_DisplayedSqlIsExecuted ==
    (fn = "rrf_search" /\ args.k = 60 /\ err = "none") =>
        /\ \A i \in 1..Len(ret) :
              ret[i].score = SqlRrfScore(fetched, ret[i].productId)
        /\ \A i, j \in 1..Len(ret) : i < j =>
              RLe(SqlRrfScore(fetched, ret[j].productId),
                  SqlRrfScore(fetched, ret[i].productId))


---------------------------------------------------------------------------

\* the query text of the most recent comparison search
LastQuery ==
    session_state.search_history[Len(session_state.search_history)].query

\* C22: after every completed comparison search, the data behind 'Download
\* CSV' and behind 'Download JSON' is the export of the results of that most
\* recent search (its query text and its results), never of an earlier one.
C22_ExportsAreOfLastSearch ==
    now > 0 =>
        /\ session_state.csv_data =
              <<export_results_to_csv(session_state.last_results, LastQuery)>>
        /\ Len(session_state.json_data) = 1
        /\ session_state.json_data[1].query = LastQuery
        /\ session_state.json_data[1].results = session_state.last_results

\* C25: search_history holds at most 10 entries, which are the most recent
\* searches (all of them up to 10) in chronological order, newest last: the
\* entry at position i is the search that completed at time now - Len + i.
C25_HistoryIsLastTen ==
    LET history == session_state.search_history
        kept == IF now < HistoryLimit THEN now ELSE HistoryLimit
    IN  /\ Len(history) <= HistoryLimit
        /\ Len(history) = kept
        /\ \A i \in 1..Len(history) : history[i].timestamp = now - kept + i

C25_Witness ==
    /\ now > HistoryLimit
    /\ Len(session_state.search_history) = HistoryLimit
    /\ session_state.search_history[1].timestamp = now - HistoryLimit + 1


---------------------------------------------------------------------------

\* C23: every connection opened by keyword_search, fuzzy_search or
\* semantic_search is closed by the time the function returns or raises, and
\* when embedding generation fails semantic_search returns [] without having
\* opened a connection.
C23_ConnectionsClosed ==
    /\ Resting => \A i \in 1..Len(connections) : connections[i] = "closed"
    /\ (db.fn = "semantic_search" /\ db.embedding \in {"None", "[]"}) =>
          db.pc = "returned" /\ db.conn = 0


---------------------------------------------------------------------------

\* C24: for every response of the rerank provider, the list rerank_results
\* returns is no longer than min(top_k, number of candidates) and holds no
\* candidate more than once.
C24_ReorderedSubset ==
    rr # <<>> =>
        /\ Len(rr.ret) <= rr.top_k
        /\ Len(rr.ret) <= Len(rr.results)
        /\ \A i, j \in 1..Len(rr.ret) :
              i < j => rr.ret[i].productId # rr.ret[j].productId

---------------------------------------------------------------------------

\* a response as the provider documents it: a 'results' list whose items
\* carry an index into the documents sent and a relevance score
ValidResponse ==
    /\ rr.called
    /\ rr.response.kind = "body"
    /\ rr.response.has_results
    /\ \A i \in 1..Len(rr.response.results) :
          /\ rr.response.results[i].has_index
          /\ rr.response.results[i].has_score
          /\ rr.response.results[i].index \in 0..(Len(rr.results) - 1)

\* C28: in rerank_results of lab2_mcp_demo.py, for a valid response, the
\* original_rank of each reranked item is index + 1, the 1-based position the
\* item had in the candidate list.
C28_OriginalRank ==
    (rr # <<>> /\ rr.fn = "rerank_results_demo" /\ ValidResponse) =>
        /\ Len(rr.ret) = Len(rr.response.results)
        /\ \A i \in 1..Len(rr.ret) :
              /\ rr.ret[i].original_rank = rr.response.results[i].index + 1
              /\ rr.ret[i].productId =
                    rr.results[rr.response.results[i].index + 1].productId

C28_Witness ==
    /\ rr # <<>>
    /\ rr.fn = "rerank_results_demo"
    /\ ValidResponse
    /\ Len(rr.ret) = 2
    /\ rr.ret[1].original_rank = 2
    /\ rr.ret[2].original_rank = 1


---------------------------------------------------------------------------

\* C26: strands_agent_search never raises; it returns a dict with the keys
\* 'response', 'method' and 'error', where 'error' is None exactly when
\* 'method' is 'strands_mcp'; and it never invokes the agent when the MCP
\* client is not configured.
C26_AlwaysADict ==
    strands # <<>> =>
        /\ strands.out.raised = "none"
        /\ \A key \in {"response", "method", "error"} :
              DictHas(strands.out.dict, key)
        /\ DictGet(strands.out.dict, "error", "missing") = "None"
              <=> DictGet(strands.out.dict, "method", "missing") = "strands_mcp"
        /\ (strands.cluster_arn = "" \/ strands.secret_arn = "" \/ ~strands.use_mcp)
              => ~strands.out.invoked

C26_Witness ==
    /\ strands # <<>>
    /\ strands.use_mcp
    /\ strands.cluster_arn = "arn" /\ strands.secret_arn = "arn"
    /\ strands.persona = "unknown"
    /\ strands.start = "raises"
    /\ strands.listing = "tools"
    /\ DictGet(strands.out.dict, "method", "missing") = "error"
    /\ DictGet(strands.out.dict, "error", "missing") = "KeyError"


---------------------------------------------------------------------------

\* the rows of the batches sent so far, in the order sent
RECURSIVE RowsSent(_, _)
RowsSent(sent, k) ==
    IF k > Len(sent) THEN <<>> ELSE sent[k] \o RowsSent(sent, k + 1)

RECURSIVE SizeOfBatches(_, _)
SizeOfBatches(sent, k) ==
    IF k > Len(sent) THEN 0 ELSE Len(sent[k]) + SizeOfBatches(sent, k + 1)

\* C27: in store_products every row is sent in exactly one batch, in row
\* order; no batch holds more than BATCH_SIZE rows; a batch is flushed exactly
\* when it reaches BATCH_SIZE rows or the last row was added; and when the loop
\* ends the pending batch is empty and total_processed is the number of rows.
C27_Batching ==
    loader.pc \in {"loop", "done"} =>
        /\ RowsSent(loader.sent, 1) \o loader.batches
              = [k \in 1..loader.i |-> k]
        /\ \A b \in 1..Len(loader.sent) :
              /\ Len(loader.sent[b]) <= BATCH_SIZE
              /\ \/ Len(loader.sent[b]) = BATCH_SIZE
                 \/ loader.sent[b][Len(loader.sent[b])] = loader.n
        /\ Len(loader.batches) < BATCH_SIZE
        /\ loader.i >= 1 =>
              (loader.batches = <<>>
                  <=> (loader.i % BATCH_SIZE = 0 \/ loader.i = loader.n))
        /\ loader.total_processed = SizeOfBatches(loader.sent, 1)
        /\ loader.pc = "done" =>
              /\ loader.batches = <<>>
              /\ loader.total_processed = loader.n
              /\ RowsSent(loader.sent, 1) = [k \in 1..loader.n |-> k]

C27_Witness ==
    /\ loader.pc = "done"
    /\ loader.n = MaxRows
    /\ Len(loader.sent) = 3
    /\ Len(loader.sent[3]) = 1
    /\ loader.total_processed = MaxRows

---------------------------------------------------------------------------

\* C29: generate_embedding_cohere never raises and never returns None, and
\* whenever the Cohere call yields no embedding (it raises, or its response
\* has no 'embeddings' field) Titan is tried before the random vector is used.
C29_FallbackOrder ==
    emb # <<>> =>
        /\ emb.out.raised = "none"
        /\ emb.out.ret # "None"
        /\ (emb.text = "text" /\ emb.cohere \in {"raises", "no embeddings"}) =>
              emb.out.models = <<"cohere", "titan">>
        /\ emb.out.ret = "seeded random vector" =>
              emb.out.models = <<"cohere", "titan">>


---------------------------------------------------------------------------

\* hours since the start of the month
Hours(t) == t.day * 24 + t.hour

\* C30: generate_dataset returns exactly target_logs entries, in
\* non-decreasing order of time; the incident clusters never exceed the
\* target; and while incidents are generated the usage counts of any two
\* archetypes differ by at most 1.
C30_DatasetShape ==
    /\ gen.pc = "incidents" =>
          /\ Len(gen.all_logs) <= gen.target_logs
          /\ \A a, b \in Archetypes :
                gen.archetype_usage[a] - gen.archetype_usage[b] <= 1
    /\ gen.pc = "returned" =>
          /\ Len(gen.all_logs) = gen.target_logs
          /\ \A k \in 1..(Len(gen.all_logs) - 1) :
                Hours(gen.all_logs[k].time) <= Hours(gen.all_logs[k + 1].time)

C30_Witness ==
    /\ gen.pc = "returned"
    /\ gen.target_logs = MaxTarget
    /\ gen.i = 3
    /\ \A a \in Archetypes : gen.archetype_usage[a] = 1
    /\ \E k \in 1..Len(gen.all_logs) : gen.all_logs[k].kind = "info"
    /\ gen.all_logs[1].time # gen.all_logs[MaxTarget].time

=============================================================================
